---- MODULE Spec2Model ----
(***************************************************************************)
(* Model of the on-disk filter cache of wsynphot                           *)
(* (wsynphot/io/cache_filters.py, wsynphot/config.py).                     *)
(*                                                                         *)
(* Strings (filter identifiers, paths) are sequences of one-character      *)
(* strings, so that re.split, os.path.join, os.path.splitext and glob are  *)
(* modelled by what they do to the characters.  Paths are relative to the  *)
(* cache directory.                                                        *)
(***************************************************************************)
EXTENDS Naturals, Integers, Sequences, FiniteSets, TLC

VARIABLES files, dirs, indexFile, stamp, today, last, fset, phot, curve

\* the cache directory, the configuration and the last cache call
cacheVars == <<files, dirs, indexFile, stamp, today, last>>

\* a FilterSet under iteration, a magnitude conversion, a filter curve in use
objectVars == <<fset, phot, curve>>

vars == <<files, dirs, indexFile, stamp, today, last, fset, phot, curve>>

(* ---------------------------- bounds ----------------------------------- *)

\* longest explicit filter_ids list passed to download_filter_data
MaxIds == 2

\* last day the clock reaches (days are counted from the start of the run)
MaxDay == 1

\* largest number of filters in a FilterSet
MaxFilters == 3

\* largest number of filters in a FilterSet whose magnitudes are converted
MaxSetSize == 2

\* longest magnitudes and magnitude_uncertainties sequences
MaxLen == 3

\* largest magnitude and largest magnitude uncertainty, in steps of 2.5 mag
MaxMag == 1
MaxUnc == 1

\* longest wavelength array passed to a transmission curve
MaxTargets == 2

\* most assignments to the attributes of one transmission curve
MaxAssignments == 2

\* last day the clock reaches between two starts of a process
MaxWait == 32

\* largest n_batches passed to get_filter_index_in_batches
MaxBatches == 3

(* ------------------------- characters, strings ------------------------- *)

\* code points of the characters used (ord), for string comparison
Code(c) ==
    CASE c = "." -> 46
      [] c = "/" -> 47
      [] c = "A" -> 65
      [] c = "B" -> 66
      [] c = "C" -> 67
      [] c = "H" -> 72
      [] c = "N" -> 78
      [] c = "W" -> 87
      [] c = "o" -> 111
      [] c = "t" -> 116
      [] c = "v" -> 118
      [] OTHER  -> 0

\* a < b for Python strings (lexicographic by code point)
RECURSIVE StrLess(_, _)
StrLess(a, b) ==
    IF a = <<>> THEN b # <<>>
    ELSE IF b = <<>> THEN FALSE
    ELSE IF Head(a) = Head(b) THEN StrLess(Tail(a), Tail(b))
    ELSE Code(Head(a)) < Code(Head(b))

\* the elements of a sequence
Range(s) == {s[i] : i \in 1..Len(s)}

\* sorted(set): the elements of a finite set of strings in ascending order
RECURSIVE SortedSeq(_)
SortedSeq(S) ==
    IF S = {} THEN <<>>
    ELSE LET m == CHOOSE x \in S : \A y \in S \ {x} : StrLess(x, y)
         IN  <<m>> \o SortedSeq(S \ {m})

\* all orderings of a finite set, as duplicate-free sequences
Orderings(S) ==
    {s \in [1..Cardinality(S) -> S] : \A i, j \in 1..Cardinality(S) : s[i] = s[j] => i = j}

\* a pattern that matches '/' only
IsSeparator_slash(c) == c = "/"

\* the pattern '/|\.' of re.split
IsSeparator(c) == c \in {"/", "."}

\* re.split('/|\.', s): the pieces of s between separators (pieces may be empty)
RECURSIVE re_split_from(_, _, _, _)
re_split_from(s, i, cur, acc) ==
    IF i > Len(s) THEN Append(acc, cur)
    ELSE IF IsSeparator(s[i]) THEN re_split_from(s, i + 1, <<>>, Append(acc, cur))
    ELSE re_split_from(s, i + 1, Append(cur, s[i]), acc)

\* re.split with maxsplit=2: the third piece keeps the rest of the string
RECURSIVE re_split_max2_from(_, _, _, _)
re_split_max2_from(s, i, cur, acc) ==
    IF i > Len(s) THEN Append(acc, cur)
    ELSE IF IsSeparator(s[i]) /\ Len(acc) < 2
         THEN re_split_max2_from(s, i + 1, <<>>, Append(acc, cur))
         ELSE re_split_max2_from(s, i + 1, Append(cur, s[i]), acc)

re_split_max2(s) == re_split_max2_from(s, 1, <<>>, <<>>)

re_split(s) == re_split_from(s, 1, <<>>, <<>>)

\* '.vot'
VotExt == <<".", "v", "o", "t">>

\* os.path.join(a, b) for non-empty relative pieces
path_join(a, b) == a \o <<"/">> \o b

\* number of '/' in a path
RECURSIVE CountSlash(_)
CountSlash(p) ==
    IF p = <<>> THEN 0
    ELSE (IF Head(p) = "/" THEN 1 ELSE 0) + CountSlash(Tail(p))

\* positions of '.' in the last component of p that are not its first character
ExtDots(p) ==
    {i \in 1..Len(p) : /\ p[i] = "."
                       /\ \A j \in i..Len(p) : p[j] # "/"
                       /\ i > 1
                       /\ p[i - 1] # "/"}

\* os.path.splitext(p)[0]: p without the extension of its last component
splitext_root(p) ==
    IF ExtDots(p) = {} THEN p
    ELSE LET d == CHOOSE i \in ExtDots(p) : \A j \in ExtDots(p) : j <= i
         IN  SubSeq(p, 1, d - 1)

\* a pattern that matches every .vot file of the directory tree
GlobMatch_any_depth(p) ==
    /\ Len(p) >= Len(VotExt)
    /\ SubSeq(p, Len(p) - Len(VotExt) + 1, Len(p)) = VotExt

\* does the relative path match the glob pattern */*/*.vot
GlobMatch(p) ==
    /\ CountSlash(p) = 2
    /\ Len(p) >= Len(VotExt)
    /\ SubSeq(p, Len(p) - Len(VotExt) + 1, Len(p)) = VotExt

(* ------------------------------ events --------------------------------- *)

\* one entry of the record of what an operation did, in program order
Ev(e, p) == [e |-> e, p |-> p]

(* ------------------------- inputs of the model ------------------------- *)

\* filter identifiers in the archive's form Facility/Instrument.FilterName
SvoA == <<"H", "/", "W", ".", "A">>
SvoB == <<"H", "/", "W", ".", "B">>
SvoC == <<"H", "/", "N", ".", "C">>

ArchiveIds == {SvoA, SvoB, SvoC}

\* what a fetch of the master index can return: the archive never returns an
\* empty index (get_filter_index_in_batches has no table to return then)
RemoteIndexes == UNION {Orderings(S) : S \in (SUBSET ArchiveIds) \ {{}}}

\* identifiers a caller may pass: other spellings of the same triplets and
\* identifiers with two and with four components
CallerIds ==
    {SvoA,
     <<"H", ".", "W", "/", "A">>,
     <<"H", "/", "N", "/", "C">>,
     <<"H", "/", "W">>,
     <<"H", "/", "W", ".", "A", ".", "B">>}

\* explicit filter_ids lists
IdLists == UNION {[1..n -> CallerIds] : n \in 0..MaxIds}

(* ------------------------ the cache operations ------------------------ *)

\* the persisted master index (svo_index.vot) and the configured update date
NoIndex == [exists |-> FALSE, ids |-> <<>>]
NoDate  == [kind |-> "none", day |-> 0]

\* what a request for the master index gives: an error or an index
FetchResults ==
    {[ok |-> FALSE, ids |-> <<>>]} \cup {[ok |-> TRUE, ids |-> i] : i \in RemoteIndexes}

\* the cache directory, the configuration and the record of what the running
\* operation did so far, threaded through the steps of one operation
World(f, d, x, s, l) == [files |-> f, dirs |-> d, indexFile |-> x, stamp |-> s, log |-> l]

Logged(w, e, p) == [w EXCEPT !.log = Append(@, Ev(e, p))]

\* a set_cache_updation_date that does not save the configuration
set_cache_updation_date_unsaved(w, day) == Logged(w, "stamp", <<>>)

\* set_cache_updation_date: cache_updation_date := current date
set_cache_updation_date(w, day) ==
    Logged([w EXCEPT !.stamp = [kind |-> "date", day |-> day]], "stamp", <<>>)

\* os.makedirs(facility/instrument): the directory and its missing parent
makedirs(d, facility, instrument) ==
    d \cup {facility, path_join(facility, instrument)}

\* is directory d an ancestor of file path p
IsUnder(d, p) ==
    /\ Len(p) > Len(d)
    /\ SubSeq(p, 1, Len(d)) = d
    /\ p[Len(d) + 1] = "/"

\* remove_empty_dirs: bottom-up walk, so a directory emptied by the removal of
\* its sub-directories is removed too; what stays are the ancestors of files
remove_empty_dirs(w) ==
    Logged([w EXCEPT !.dirs = {x \in w.dirs : \E p \in w.files : IsUnder(x, p)}],
           "prune", <<>>)

\* download_svo_filters_index: fetch the index in batches, then write it
download_svo_filters_index(fetch, w) ==
    LET asked == Logged(w, "request_index", <<>>) IN
    IF ~fetch.ok
    THEN [raised |-> "Exception", w |-> asked]
    ELSE [raised |-> "",
          w |-> Logged([asked EXCEPT !.indexFile = [exists |-> TRUE, ids |-> fetch.ids]],
                       "write_index", <<>>)]

\* a load_svo_filters_index that gives an empty table when there is no index
load_svo_filters_index_empty(w) ==
    [raised |-> "", remedy |-> "", ids |-> w.indexFile.ids]

\* load_svo_filters_index: IOError when svo_index.vot is not there, with a
\* message that names the function to call; else the filterID column
load_svo_filters_index(w) ==
    IF ~w.indexFile.exists
    THEN [raised |-> "IOError", remedy |-> "download_svo_filters_index", ids |-> <<>>]
    ELSE [raised |-> "", remedy |-> "", ids |-> w.indexFile.ids]

\* download_transmission_data(filter_id); netOK says whether the archive
\* request returns a table
download_transmission_data(filter_id, netOK, w) ==
    LET parts == re_split(filter_id) IN
    IF Len(parts) # 3
    THEN [raised |-> "ValueError", w |-> w]
    ELSE LET facility    == parts[1]
             instrument  == parts[2]
             filter_name == parts[3]
             svo_filter_id == facility \o <<"/">> \o instrument \o <<".">> \o filter_name
             requested == Logged(w, "request", svo_filter_id)
             dir_path  == path_join(facility, instrument)
             fpath     == path_join(dir_path, filter_name \o VotExt)
         IN  IF ~netOK
             THEN [raised |-> "Exception", w |-> requested]
             ELSE [raised |-> "",
                   w |-> Logged([requested EXCEPT
                                   !.dirs  = IF dir_path \in @ THEN @
                                             ELSE makedirs(@, facility, instrument),
                                   !.files = @ \cup {fpath}],
                                "write", fpath)]

\* the loop without its try/except: the first failure ends it
RECURSIVE iterative_download_from_abort(_, _, _, _, _)
iterative_download_from_abort(filter_ids, k, failPos, w, failed) ==
    IF k > Len(filter_ids) THEN [w |-> w, failed |-> failed]
    ELSE LET r == download_transmission_data(filter_ids[k], k \notin failPos,
                                             Logged(w, "attempt", filter_ids[k]))
         IN  IF r.raised # ""
             THEN [w |-> r.w, failed |-> Append(failed, filter_ids[k])]
             ELSE iterative_download_from_abort(filter_ids, k + 1, failPos, r.w, failed)

\* iterative_download_transmission_data(filter_ids): the loop from position k
\* on; failPos are the positions whose archive request fails
RECURSIVE iterative_download_from(_, _, _, _, _)
iterative_download_from(filter_ids, k, failPos, w, failed) ==
    IF k > Len(filter_ids) THEN [w |-> w, failed |-> failed]
    ELSE LET r == download_transmission_data(filter_ids[k], k \notin failPos,
                                             Logged(w, "attempt", filter_ids[k]))
         IN  iterative_download_from(filter_ids, k + 1, failPos, r.w,
                 IF r.raised # "" THEN Append(failed, filter_ids[k]) ELSE failed)

\* a loop that starts at the second filter id
iterative_download_skip_first(filter_ids, failPos, w) ==
    iterative_download_from(filter_ids, 2, failPos, w, <<>>)

iterative_download_transmission_data(filter_ids, failPos, w) ==
    iterative_download_from(filter_ids, 1, failPos, w, <<>>)

\* a download_filter_data that does not look at download_all_mode when it
\* decides to record the update date
download_filter_data_any_mode(given, filter_ids, fetch, failPos, day, w) ==
    LET idx == IF given THEN [raised |-> "", w |-> w]
               ELSE download_svo_filters_index(fetch, w)
    IN  IF idx.raised # ""
        THEN [raised |-> idx.raised, failed |-> <<>>, w |-> idx.w]
        ELSE LET svo_filters_index == load_svo_filters_index(idx.w)
                 ids == IF given THEN filter_ids ELSE svo_filters_index.ids
                 d   == iterative_download_transmission_data(ids, failPos, idx.w)
             IN  IF ~given /\ svo_filters_index.raised # ""
                 THEN [raised |-> svo_filters_index.raised, failed |-> <<>>, w |-> idx.w]
                 ELSE [raised |-> "", failed |-> d.failed,
                       w |-> IF Len(d.failed) = 0
                             THEN set_cache_updation_date(d.w, day)
                             ELSE d.w]

\* a download that fetches the master index whatever it is called with
download_filter_data_refetch(given, filter_ids, fetch, failPos, day, w) ==
    LET idx == download_svo_filters_index(fetch, w)
    IN  IF idx.raised # ""
        THEN [raised |-> idx.raised, failed |-> <<>>, w |-> idx.w]
        ELSE LET svo_filters_index == load_svo_filters_index(idx.w)
                 ids == IF given THEN filter_ids ELSE svo_filters_index.ids
                 d   == iterative_download_transmission_data(ids, failPos, idx.w)
             IN  IF ~given /\ svo_filters_index.raised # ""
                 THEN [raised |-> svo_filters_index.raised, failed |-> <<>>, w |-> idx.w]
                 ELSE [raised |-> "", failed |-> d.failed,
                       w |-> IF ~given /\ Len(d.failed) = 0
                             THEN set_cache_updation_date(d.w, day)
                             ELSE d.w]

\* download_filter_data(filter_ids): given = FALSE stands for filter_ids=None
download_filter_data(given, filter_ids, fetch, failPos, day, w) ==
    LET idx == IF given THEN [raised |-> "", w |-> w]
               ELSE download_svo_filters_index(fetch, w)
    IN  IF idx.raised # ""
        THEN [raised |-> idx.raised, failed |-> <<>>, w |-> idx.w]
        ELSE LET svo_filters_index == load_svo_filters_index(idx.w)
                 ids == IF given THEN filter_ids ELSE svo_filters_index.ids
                 d   == iterative_download_transmission_data(ids, failPos, idx.w)
             IN  IF ~given /\ svo_filters_index.raised # ""
                 THEN [raised |-> svo_filters_index.raised, failed |-> <<>>, w |-> idx.w]
                 ELSE [raised |-> "", failed |-> d.failed,
                       w |-> IF ~given /\ Len(d.failed) = 0
                             THEN set_cache_updation_date(d.w, day)
                             ELSE d.w]

\* load_local_filters_index: one identifier per file matching */*/*.vot, the
\* path relative to the cache directory without its extension (as a set; glob
\* lists them in an arbitrary order)
load_local_filters_index(f) == {splitext_root(p) : p \in {q \in f : GlobMatch(q)}}

\* np.array_equal on two one-dimensional arrays of strings
array_equal(a, b) == Len(a) = Len(b) /\ \A i \in 1..Len(a) : a[i] = b[i]

\* a set operation that keeps the common values instead
setdiff1d_intersect(a, b) == SortedSeq(Range(a) \cap Range(b))

\* np.setdiff1d(a, b): the sorted unique values of a that are not in b
setdiff1d(a, b) == SortedSeq(Range(a) \ Range(b))

\* a removal loop that removes nothing
remove_filters_from_none(filters_to_remove, k, w) == [raised |-> "", w |-> w]

\* the removal loop of update_filter_data from position k on
RECURSIVE remove_filters_from(_, _, _)
remove_filters_from(filters_to_remove, k, w) ==
    IF k > Len(filters_to_remove) THEN [raised |-> "", w |-> w]
    ELSE LET parts == re_split(filters_to_remove[k]) IN
         IF Len(parts) # 3 THEN [raised |-> "ValueError", w |-> w]
         ELSE LET filter_file == path_join(path_join(parts[1], parts[2]),
                                           parts[3] \o VotExt)
              IN  remove_filters_from(filters_to_remove, k + 1,
                      IF filter_file \in w.files
                      THEN Logged([w EXCEPT !.files = @ \ {filter_file}],
                                  "remove", filter_file)
                      ELSE w)

\* update_filter_data: old_index is the local listing in the order glob gave
update_filter_data(old_index, fetch, failPos, day, w) ==
    LET old_filters == old_index
        idx == download_svo_filters_index(fetch, Logged(w, "list", <<>>))
    IN  IF idx.raised # ""
        THEN [raised |-> idx.raised, ret |-> FALSE, w |-> idx.w]
        ELSE LET new_index == load_svo_filters_index(idx.w)
                 new_filters == new_index.ids
             IN
             IF new_index.raised # ""
             THEN [raised |-> new_index.raised, ret |-> FALSE, w |-> idx.w]
             ELSE
             IF array_equal(old_filters, new_filters)
             THEN [raised |-> "", ret |-> FALSE, w |-> set_cache_updation_date(idx.w, day)]
             ELSE LET filters_to_remove == setdiff1d(old_filters, new_filters)
                      removed == remove_filters_from(filters_to_remove, 1, idx.w)
                  IN  IF removed.raised # ""
                      THEN [raised |-> removed.raised, ret |-> FALSE, w |-> removed.w]
                      ELSE LET pruned == remove_empty_dirs(removed.w)
                               filters_to_add == setdiff1d(new_filters, old_filters)
                               added == iterative_download_transmission_data(
                                            filters_to_add, failPos, pruned)
                           IN  [raised |-> "", ret |-> TRUE,
                                w |-> set_cache_updation_date(added.w, day)]

\* load_transmission_data(filter_id): the file it reads, or what it raises
load_transmission_data(filter_id, w) ==
    LET parts == re_split(filter_id) IN
    IF Len(parts) # 3
    THEN [raised |-> "ValueError", w |-> w]
    ELSE LET transmission_data_loc == path_join(path_join(parts[1], parts[2]),
                                                parts[3] \o VotExt)
         IN  IF transmission_data_loc \notin w.files
             THEN [raised |-> "IOError", w |-> w]
             ELSE [raised |-> "", w |-> Logged(w, "read", transmission_data_loc)]

(* ----------------------------- the system ------------------------------ *)

\* what the last operation was called with and what it gave back
Outcome(op, given, arg, fetched, raised, failed, ret, log) ==
    [op |-> op, given |-> given, arg |-> arg, fetched |-> fetched,
     raised |-> raised, failed |-> failed, ret |-> ret, log |-> log]

\* no operation has returned a result that its caller has yet to take
Idle == Outcome("none", FALSE, <<>>, <<>>, "", <<>>, FALSE, <<>>)

\* the state an operation starts from, with an empty record of its steps
Now == World(files, dirs, indexFile, stamp, <<>>)

\* the state an operation leaves
Becomes(w) ==
    /\ files' = w.files
    /\ dirs' = w.dirs
    /\ indexFile' = w.indexFile
    /\ stamp' = w.stamp
    /\ UNCHANGED objectVars

\* no FilterSet, no conversion and no filter curve are in use
NoFilterSet  == [filters |-> <<>>]
NoConversion == [op |-> "none"]
NoCurve      == [op |-> "none"]

\* a fresh cache directory and a configuration without cache_updation_date
Init ==
    /\ files = {}
    /\ dirs = {}
    /\ indexFile = NoIndex
    /\ stamp = NoDate
    /\ today = 0
    /\ last = Idle
    /\ fset = NoFilterSet
    /\ phot = NoConversion
    /\ curve = NoCurve

\* download_filter_data(filter_ids) with an explicit list
DownloadFilterData ==
    /\ last = Idle
    /\ \E ids \in IdLists : \E failPos \in SUBSET (1..Len(ids)) :
           LET r == download_filter_data(TRUE, ids, [ok |-> FALSE, ids |-> <<>>],
                                         failPos, today, Now)
           IN  /\ Becomes(r.w)
               /\ last' = Outcome("download_filter_data", TRUE, ids, <<>>,
                                  r.raised, r.failed, FALSE, r.w.log)
               /\ UNCHANGED today

\* download_filter_data() with filter_ids omitted
DownloadAllFilterData ==
    /\ last = Idle
    /\ \E fetch \in FetchResults : \E failPos \in SUBSET (1..Len(fetch.ids)) :
           LET r == download_filter_data(FALSE, <<>>, fetch, failPos, today, Now)
           IN  /\ Becomes(r.w)
               /\ last' = Outcome("download_filter_data", FALSE, <<>>, fetch.ids,
                                  r.raised, r.failed, FALSE, r.w.log)
               /\ UNCHANGED today

\* download_svo_filters_index()
DownloadSvoFiltersIndex ==
    /\ last = Idle
    /\ \E fetch \in FetchResults :
           LET r == download_svo_filters_index(fetch, Now)
           IN  /\ Becomes(r.w)
               /\ last' = Outcome("download_svo_filters_index", FALSE, <<>>, fetch.ids,
                                  r.raised, <<>>, FALSE, r.w.log)
               /\ UNCHANGED today

\* download_transmission_data(filter_id)
DownloadTransmissionData ==
    /\ last = Idle
    /\ \E id \in CallerIds : \E netOK \in BOOLEAN :
           LET r == download_transmission_data(id, netOK, Now)
           IN  /\ Becomes(r.w)
               /\ last' = Outcome("download_transmission_data", TRUE, <<id>>, <<>>,
                                  r.raised, <<>>, FALSE, r.w.log)
               /\ UNCHANGED today

\* update_filter_data()
UpdateFilterData ==
    /\ last = Idle
    /\ \E old_index \in Orderings(load_local_filters_index(files)) :
       \E fetch \in FetchResults : \E failPos \in SUBSET (1..Len(fetch.ids)) :
           LET r == update_filter_data(old_index, fetch, failPos, today, Now)
           IN  /\ Becomes(r.w)
               /\ last' = Outcome("update_filter_data", FALSE, <<>>, fetch.ids,
                                  r.raised, <<>>, r.ret, r.w.log)
               /\ UNCHANGED today

\* load_transmission_data(filter_id)
LoadTransmissionData ==
    /\ last = Idle
    /\ \E id \in CallerIds :
           LET r == load_transmission_data(id, Now)
           IN  /\ Becomes(r.w)
               /\ last' = Outcome("load_transmission_data", TRUE, <<id>>, <<>>,
                                  r.raised, <<>>, FALSE, r.w.log)
               /\ UNCHANGED today

\* load_svo_filters_index(): fetched holds the filterID column it returns
LoadSvoFiltersIndex ==
    /\ last = Idle
    /\ LET r == load_svo_filters_index(Now)
       IN  /\ Becomes(Now)
           /\ last' = Outcome("load_svo_filters_index", FALSE, <<>>, r.ids,
                              r.raised, <<>>, FALSE, <<>>)
           /\ UNCHANGED today

\* the caller takes the result of the operation that returned or raised
Return ==
    /\ last # Idle
    /\ last' = Idle
    /\ UNCHANGED <<files, dirs, indexFile, stamp, today>>
    /\ UNCHANGED objectVars

\* a day passes
Tick ==
    /\ today < MaxDay
    /\ today' = today + 1
    /\ UNCHANGED <<files, dirs, indexFile, stamp, last>>
    /\ UNCHANGED objectVars

Next ==
    \/ DownloadFilterData
    \/ DownloadAllFilterData
    \/ DownloadSvoFiltersIndex
    \/ DownloadTransmissionData
    \/ UpdateFilterData
    \/ LoadTransmissionData
    \/ LoadSvoFiltersIndex
    \/ Return
    \/ Tick

Spec == Init /\ [][Next]_vars

(* ------------------------ FilterSet iteration -------------------------- *)

\* the cache is not touched by the operations on objects in memory
CacheFresh ==
    /\ files = {}
    /\ dirs = {}
    /\ indexFile = NoIndex
    /\ stamp = NoDate
    /\ today = 0
    /\ last = Idle

\* the filters a FilterSet can be made of, named by their position in a list
FilterNames == <<"f1", "f2", "f3", "f4">>

\* the loops that traverse the same FilterSet
Traversals == {1, 2}

\* FilterSet.__init__ on a list of n filters; no loop has started
NewFilterSet(n) ==
    [filters |-> SubSeq(FilterNames, 1, n),
     current_filter_idx |-> 0,
     pc  |-> [t \in Traversals |-> "new"],
     got |-> [t \in Traversals |-> <<>>]]

InitIter ==
    /\ CacheFresh
    /\ fset \in {NewFilterSet(n) : n \in 1..MaxFilters}
    /\ phot = NoConversion
    /\ curve = NoCurve

\* FilterSet.__iter__: a loop starts; the cursor of the set goes back to 0 and
\* the set itself is the iterator
FilterSet_iter(t) ==
    /\ fset.pc[t] = "new"
    /\ fset' = [fset EXCEPT !.current_filter_idx = 0, !.pc[t] = "running"]
    /\ UNCHANGED <<cacheVars, phot, curve>>

\* FilterSet.__next__: the loop takes the item at the cursor of the set, or
\* ends (StopIteration) when the cursor is past the last filter
FilterSet_next(t) ==
    /\ fset.pc[t] = "running"
    /\ IF fset.current_filter_idx >= Len(fset.filters)
       THEN fset' = [fset EXCEPT !.pc[t] = "done"]
       ELSE fset' = [fset EXCEPT
                       !.got[t] = Append(@, fset.filters[fset.current_filter_idx + 1]),
                       !.current_filter_idx = @ + 1]
    /\ UNCHANGED <<cacheVars, phot, curve>>

StartLoop == \E t \in Traversals : FilterSet_iter(t)

StepLoop == \E t \in Traversals : FilterSet_next(t)

NextIter ==
    \/ StartLoop
    \/ StepLoop

SpecIter == InitIter /\ [][NextIter]_vars

(* ----------------------- magnitude conversions ------------------------ *)

\* Magnitudes are whole numbers of 2.5 mag steps, so that 10**(-0.4*mag) is
\* the exact power of ten 10**(-mag).  Flux densities are whole numbers of
\* 10**(-FluxShift) erg/s/cm^2/Angstrom.
FluxShift == MaxMag + MaxUnc

RECURSIVE Pow10(_)
Pow10(n) == IF n <= 0 THEN 1 ELSE 10 * Pow10(n - 1)

\* 10**(-0.4*mag) in flux units
pow10_neg04(mag) == Pow10(FluxShift - mag)

\* np.abs
Abs(x) == IF x < 0 THEN 0 - x ELSE x

\* the i-th filter of a set with its zero points (lazy properties of the curve)
FilterOf(i) ==
    [filter_id |-> FilterNames[i], zp_ab_f_lambda |-> i + 1, zp_vega_f_lambda |-> 2 * i + 1]

\* a conversion that uses the zero point of the other system
convert_ab_magnitude_to_f_lambda_vega_zp(filter, mag) ==
    pow10_neg04(mag) * filter.zp_vega_f_lambda

\* BaseFilterCurve.convert_ab_magnitude_to_f_lambda
convert_ab_magnitude_to_f_lambda(filter, mag) ==
    pow10_neg04(mag) * filter.zp_ab_f_lambda

\* BaseFilterCurve.convert_vega_magnitude_to_f_lambda
convert_vega_magnitude_to_f_lambda(filter, mag) ==
    pow10_neg04(mag) * filter.zp_vega_f_lambda

\* -2.5 * np.log10(f_lambda / zp): the steps of 2.5 mag when the ratio is a
\* power of ten, and no magnitude of the model (FluxShift + 1) when it is not
neg25_log10_ratio(f_lambda, zp) ==
    IF \E n \in 0..(2 * FluxShift) : f_lambda = zp * Pow10(n)
    THEN FluxShift - (CHOOSE n \in 0..(2 * FluxShift) : f_lambda = zp * Pow10(n))
    ELSE FluxShift + 1

\* calculate_ab_magnitude for a spectrum whose filter-averaged flux density
\* (flux density / wavelength delta) is filtered_f_lambda
calculate_ab_magnitude(filtered_f_lambda, filter) ==
    neg25_log10_ratio(filtered_f_lambda, filter.zp_ab_f_lambda)

\* calculate_vega_magnitude, likewise
calculate_vega_magnitude(filtered_f_lambda, filter) ==
    neg25_log10_ratio(filtered_f_lambda, filter.zp_vega_f_lambda)

\* zip(a, b, ...) stops at the shortest sequence
Min(a, b) == IF a < b THEN a ELSE b

\* a conversion without the length check: zip drops what has no partner
convert_ab_magnitudes_to_f_lambda_unchecked(filter_set, magnitudes) ==
    [raised |-> "",
     result |-> [i \in 1..Min(Len(filter_set), Len(magnitudes)) |->
                    convert_ab_magnitude_to_f_lambda(filter_set[i], magnitudes[i])]]

\* FilterSet.convert_ab_magnitudes_to_f_lambda
convert_ab_magnitudes_to_f_lambda(filter_set, magnitudes) ==
    IF Len(magnitudes) # Len(filter_set)
    THEN [raised |-> "ValueError", result |-> <<>>]
    ELSE [raised |-> "",
          result |-> [i \in 1..Min(Len(filter_set), Len(magnitudes)) |->
                         convert_ab_magnitude_to_f_lambda(filter_set[i], magnitudes[i])]]

\* FilterSet.convert_vega_magnitudes_to_f_lambda
convert_vega_magnitudes_to_f_lambda(filter_set, magnitudes) ==
    IF Len(magnitudes) # Len(filter_set)
    THEN [raised |-> "ValueError", result |-> <<>>]
    ELSE [raised |-> "",
          result |-> [i \in 1..Min(Len(filter_set), Len(magnitudes)) |->
                         convert_vega_magnitude_to_f_lambda(filter_set[i], magnitudes[i])]]

\* can arrays of shapes (2, n) and (m,) be broadcast together
Broadcastable(n, m) == n = m \/ n = 1 \/ m = 1

\* np.abs(Quantity((positive, negative)) - central): row r of the (2, n)
\* array minus the (m,) array, an axis of length 1 being stretched
abs_rows_minus(positive, negative, central) ==
    LET n == Len(positive)
        m == Len(central)
        w == IF n = 1 THEN m ELSE n
        Row(row) == [i \in 1..w |->
                        Abs(row[IF n = 1 THEN 1 ELSE i] - central[IF m = 1 THEN 1 ELSE i])]
    IN  IF ~Broadcastable(n, m)
        THEN [raised |-> "ValueError", result |-> <<>>]
        ELSE [raised |-> "", result |-> <<Row(positive), Row(negative)>>]

\* an uncertainty conversion that evaluates both rows at magnitude + uncertainty
convert_ab_magnitude_uncertainties_symmetric(filter_set, magnitudes, magnitude_uncertainties) ==
    IF Len(magnitudes) # Len(filter_set)
    THEN [raised |-> "ValueError", result |-> <<>>]
    ELSE LET zipped == Min(Len(filter_set), Min(Len(magnitudes), Len(magnitude_uncertainties)))
             f_lambda_positive_uncertainties ==
                 [i \in 1..zipped |-> convert_ab_magnitude_to_f_lambda(
                     filter_set[i], magnitudes[i] + magnitude_uncertainties[i])]
         IN  abs_rows_minus(f_lambda_positive_uncertainties,
                            f_lambda_positive_uncertainties,
                            convert_ab_magnitudes_to_f_lambda(filter_set, magnitudes).result)

\* FilterSet.convert_ab_magnitude_uncertainties_to_f_lambda_uncertainties
convert_ab_magnitude_uncertainties_to_f_lambda_uncertainties(filter_set, magnitudes, magnitude_uncertainties) ==
    IF Len(magnitudes) # Len(filter_set)
    THEN [raised |-> "ValueError", result |-> <<>>]
    ELSE LET zipped == Min(Len(filter_set), Min(Len(magnitudes), Len(magnitude_uncertainties)))
             f_lambda_positive_uncertainties ==
                 [i \in 1..zipped |-> convert_ab_magnitude_to_f_lambda(
                     filter_set[i], magnitudes[i] + magnitude_uncertainties[i])]
             f_lambda_negative_uncertainties ==
                 [i \in 1..zipped |-> convert_ab_magnitude_to_f_lambda(
                     filter_set[i], magnitudes[i] - magnitude_uncertainties[i])]
         IN  abs_rows_minus(f_lambda_positive_uncertainties,
                            f_lambda_negative_uncertainties,
                            convert_ab_magnitudes_to_f_lambda(filter_set, magnitudes).result)

\* FilterSet.convert_vega_magnitude_uncertainties_to_f_lambda_uncertainties
convert_vega_magnitude_uncertainties_to_f_lambda_uncertainties(filter_set, magnitudes, magnitude_uncertainties) ==
    IF Len(magnitudes) # Len(filter_set)
    THEN [raised |-> "ValueError", result |-> <<>>]
    ELSE LET zipped == Min(Len(filter_set), Min(Len(magnitudes), Len(magnitude_uncertainties)))
             f_lambda_positive_uncertainties ==
                 [i \in 1..zipped |-> convert_vega_magnitude_to_f_lambda(
                     filter_set[i], magnitudes[i] + magnitude_uncertainties[i])]
             f_lambda_negative_uncertainties ==
                 [i \in 1..zipped |-> convert_vega_magnitude_to_f_lambda(
                     filter_set[i], magnitudes[i] - magnitude_uncertainties[i])]
         IN  abs_rows_minus(f_lambda_positive_uncertainties,
                            f_lambda_negative_uncertainties,
                            convert_vega_magnitudes_to_f_lambda(filter_set, magnitudes).result)

\* the magnitudes a caller may pass, and the uncertainties (at least one:
\* the units of an empty Quantity are not modelled)
Magnitudes == (0 - MaxMag)..MaxMag
MagnitudeLists == UNION {[1..n -> Magnitudes] : n \in 0..MaxLen}
UncertaintyLists == UNION {[1..n -> 0..MaxUnc] : n \in 1..MaxLen}

\* a FilterSet, magnitudes and uncertainties on which op was called
Conversion(op, filter_set, magnitudes, magnitude_uncertainties, r) ==
    [op |-> op, filter_set |-> filter_set, magnitudes |-> magnitudes,
     magnitude_uncertainties |-> magnitude_uncertainties,
     raised |-> r.raised, result |-> r.result]

InitPhot ==
    /\ CacheFresh
    /\ fset = NoFilterSet
    /\ curve = NoCurve
    /\ \E n \in 1..MaxSetSize : \E mags \in MagnitudeLists : \E uncs \in UncertaintyLists :
           phot = Conversion("input", [i \in 1..n |-> FilterOf(i)], mags, uncs,
                             [raised |-> "", result |-> <<>>])

\* the call op gave r on the FilterSet and sequences at hand
Converted(op, r) ==
    Conversion(op, phot.filter_set, phot.magnitudes, phot.magnitude_uncertainties, r)

ConvertAbMagnitudes ==
    /\ phot' = Converted("convert_ab_magnitudes_to_f_lambda",
                         convert_ab_magnitudes_to_f_lambda(phot.filter_set, phot.magnitudes))
    /\ UNCHANGED <<cacheVars, fset, curve>>

ConvertVegaMagnitudes ==
    /\ phot' = Converted("convert_vega_magnitudes_to_f_lambda",
                         convert_vega_magnitudes_to_f_lambda(phot.filter_set, phot.magnitudes))
    /\ UNCHANGED <<cacheVars, fset, curve>>

ConvertAbUncertainties ==
    /\ phot' = Converted("convert_ab_magnitude_uncertainties_to_f_lambda_uncertainties",
                         convert_ab_magnitude_uncertainties_to_f_lambda_uncertainties(
                             phot.filter_set, phot.magnitudes, phot.magnitude_uncertainties))
    /\ UNCHANGED <<cacheVars, fset, curve>>

ConvertVegaUncertainties ==
    /\ phot' = Converted("convert_vega_magnitude_uncertainties_to_f_lambda_uncertainties",
                         convert_vega_magnitude_uncertainties_to_f_lambda_uncertainties(
                             phot.filter_set, phot.magnitudes, phot.magnitude_uncertainties))
    /\ UNCHANGED <<cacheVars, fset, curve>>

\* the AB magnitudes of the flux densities the magnitudes convert to
AbMagnitudesOfConverted ==
    LET f == convert_ab_magnitudes_to_f_lambda(phot.filter_set, phot.magnitudes) IN
    /\ phot' = Converted("calculate_ab_magnitude",
                         [raised |-> f.raised,
                          result |-> [i \in 1..Len(f.result) |->
                                         calculate_ab_magnitude(f.result[i], phot.filter_set[i])]])
    /\ UNCHANGED <<cacheVars, fset, curve>>

\* the Vega magnitudes of the flux densities the magnitudes convert to
VegaMagnitudesOfConverted ==
    LET f == convert_vega_magnitudes_to_f_lambda(phot.filter_set, phot.magnitudes) IN
    /\ phot' = Converted("calculate_vega_magnitude",
                         [raised |-> f.raised,
                          result |-> [i \in 1..Len(f.result) |->
                                         calculate_vega_magnitude(f.result[i], phot.filter_set[i])]])
    /\ UNCHANGED <<cacheVars, fset, curve>>

NextPhot ==
    \/ ConvertAbMagnitudes
    \/ ConvertVegaMagnitudes
    \/ ConvertAbUncertainties
    \/ ConvertVegaUncertainties
    \/ AbMagnitudesOfConverted
    \/ VegaMagnitudesOfConverted

SpecPhot == InitPhot /\ [][NextPhot]_vars

(* ------------------------- transmission curves ------------------------- *)

\* Wavelengths are whole numbers of their unit and a transmission of 1.0 is
\* FullTransmission, so that every quotient the code takes is exact here.

\* astropy units of length: how many of the unit make one nanometre
Units == {"nm", "angstrom"}
PerNm(unit) == IF unit = "angstrom" THEN 10 ELSE 1

\* the wavelength samples of a curve in nanometres: strictly increasing,
\* evenly and unevenly spaced
SampleGrids == {<<2, 4>>, <<2, 8>>, <<4, 8>>, <<2, 4, 8>>}

\* transmission 1.0: an even multiple of every distance between two samples
FullTransmission == 24

\* transmission / wavelength and transmission / wavelength**2 are kept as
\* multiples of 1 / InverseScale(unit), a multiple of every squared sample
InverseScale(unit) == 64 * PerNm(unit) * PerNm(unit)

\* a Quantity
Quantity(value, unit) == [value |-> value, unit |-> unit]

\* Quantity.to(unit)
Quantity_to(q, unit) ==
    Quantity([i \in 1..Len(q.value) |-> (q.value[i] * PerNm(unit)) \div PerNm(q.unit)], unit)

DetectorTypes == {"ENERGY_COUNTER", "PHOTON_COUNTER"}

\* interpolation kinds: piecewise linear, nearest sample, first-order spline
InterpolationKinds == {"linear", "nearest", "slinear"}

\* np.searchsorted(a, v, side): the number of entries of the sorted a that
\* are before v (side left) or not after v (side right)
searchsorted(a, v, side) ==
    Cardinality({i \in 1..Len(a) : IF side = "left" THEN a[i] < v ELSE a[i] <= v})

\* ndarray.clip(lo, hi)
clip(i, lo, hi) == IF i < lo THEN lo ELSE IF i > hi THEN hi ELSE i

\* interp1d._call_linear (also the first-order spline): the line through the
\* two samples around x_new, through the outermost two beyond the samples
call_linear(x, y, x_new) ==
    LET hi == clip(searchsorted(x, x_new, "left"), 1, Len(x) - 1) + 1
        lo == hi - 1
    IN  ((y[hi] - y[lo]) * (x_new - x[lo])) \div (x[hi] - x[lo]) + y[lo]

\* interp1d._call_nearest: the sample whose half-way bounds enclose x_new,
\* the lower sample at a half-way point
call_nearest(x, y, x_new) ==
    LET x_bds == [i \in 1..(Len(x) - 1) |-> (x[i] + x[i + 1]) \div 2]
    IN  y[clip(searchsorted(x_bds, x_new, "left"), 0, Len(x) - 1) + 1]

\* bounds that take the first and the last sample for out of range
check_bounds_closed(x, x_new) ==
    [below_bounds |-> x_new <= x[1], above_bounds |-> x_new >= x[Len(x)]]

\* interp1d._check_bounds with bounds_error=False
check_bounds(x, x_new) ==
    [below_bounds |-> x_new < x[1], above_bounds |-> x_new > x[Len(x)]]

\* an interpolation object that extrapolates instead of filling
interp1d_extrapolate(x, y, kind, fill_value, x_new) ==
    IF kind = "nearest" THEN call_nearest(x, y, x_new) ELSE call_linear(x, y, x_new)

\* interp1d(x, y, kind=kind, bounds_error=False, fill_value=fill_value)
\* evaluated at x_new
interp1d(x, y, kind, fill_value, x_new) ==
    LET y_new == IF kind = "nearest" THEN call_nearest(x, y, x_new)
                                     ELSE call_linear(x, y, x_new)
        out   == check_bounds(x, x_new)
    IN  IF out.below_bounds \/ out.above_bounds THEN fill_value ELSE y_new

\* BaseFilterCurve.__init__
BaseFilterCurve(wavelength, transmission_lambda, detector_type, interpolation_kind) ==
    [wavelength |-> wavelength, transmission_lambda |-> transmission_lambda,
     detector_type |-> detector_type, interpolation_kind |-> interpolation_kind]

\* self.interpolation_object(x_new)
interpolation_object(self, x_new) ==
    [i \in 1..Len(x_new) |->
        interp1d(self.wavelength.value, self.transmission_lambda,
                 self.interpolation_kind, 0, x_new[i])]

\* BaseFilterCurve.interpolate
interpolate(self, wavelength) ==
    LET converted_wavelength == Quantity_to(wavelength, self.wavelength.unit)
    IN  interpolation_object(self, converted_wavelength.value)

\* a spectrum-like object; an attribute it lacks is flagged and left empty
SpectrumLike(has_wavelength, wavelength, has_flux, flux) ==
    [has_wavelength |-> has_wavelength, wavelength |-> wavelength,
     has_flux |-> has_flux, flux |-> flux]

NoQuantity == Quantity(<<>>, "nm")

\* Spectrum1D.from_array, and its absence when the product raised
Product(raised, interpolated, wavelength, flux) ==
    [raised |-> raised, interpolated |-> interpolated,
     wavelength |-> wavelength, flux |-> flux]

\* a product that rejects only an argument lacking both attributes
mul_lacking_both(self, other) ==
    IF ~other.has_flux /\ ~other.has_wavelength
    THEN Product("ValueError", FALSE, NoQuantity, <<>>)
    ELSE IF ~other.has_wavelength
    THEN Product("AttributeError", FALSE, NoQuantity, <<>>)
    ELSE IF ~other.has_flux
    THEN Product("AttributeError", TRUE, NoQuantity, <<>>)
    ELSE LET transmission == interpolate(self, other.wavelength)
         IN  Product("", TRUE, other.wavelength,
                     [i \in 1..Len(transmission) |-> transmission[i] * other.flux[i]])

\* BaseFilterCurve.__mul__
mul(self, other) ==
    IF ~other.has_flux \/ ~other.has_wavelength
    THEN Product("ValueError", FALSE, NoQuantity, <<>>)
    ELSE LET transmission == interpolate(self, other.wavelength)
         IN  Product("", TRUE, other.wavelength,
                     [i \in 1..Len(transmission) |-> transmission[i] * other.flux[i]])

\* BaseFilterCurve.__rmul__
rmul(self, other) == mul(self, other)

\* np.trapz(y, x)
RECURSIVE trapz_from(_, _, _)
trapz_from(y, x, i) ==
    IF i >= Len(x) THEN 0
    ELSE ((x[i + 1] - x[i]) * (y[i + 1] + y[i])) \div 2 + trapz_from(y, x, i + 1)

trapz(y, x) == trapz_from(y, x, 1)

\* elementwise products and scaled quotients of arrays
times(a, b) == [i \in 1..Len(a) |-> a[i] * b[i]]
over(a, b, scale) == [i \in 1..Len(a) |-> (a[i] * scale) \div b[i]]

\* a site that integrates the other detector type's integrand
calculate_wavelength_delta_swapped(self) ==
    IF self.detector_type = "PHOTON_COUNTER"
    THEN trapz(self.transmission_lambda, self.wavelength.value)
    ELSE trapz(times(self.transmission_lambda, self.wavelength.value), self.wavelength.value)

\* BaseFilterCurve.calculate_wavelength_delta
calculate_wavelength_delta(self) ==
    IF self.detector_type = "PHOTON_COUNTER"
    THEN trapz(times(self.transmission_lambda, self.wavelength.value), self.wavelength.value)
    ELSE trapz(self.transmission_lambda, self.wavelength.value)

\* a quotient of two integrals, the lower one in units of 1 / scale
Ratio(upper, lower, scale) == [upper |-> upper, lower |-> lower, scale |-> scale]

\* BaseFilterCurve.lambda_pivot, squared: the quotient under np.sqrt
lambda_pivot(self) ==
    LET wavelength == self.wavelength.value
        scale == InverseScale(self.wavelength.unit)
    IN  IF self.detector_type = "PHOTON_COUNTER"
        THEN Ratio(trapz(times(self.transmission_lambda, wavelength), wavelength),
                   trapz(over(self.transmission_lambda, wavelength, scale), wavelength),
                   scale)
        ELSE Ratio(trapz(self.transmission_lambda, wavelength),
                   trapz(over(self.transmission_lambda, times(wavelength, wavelength), scale),
                         wavelength),
                   scale)

\* BaseFilterCurve.calculate_weighted_average_wavelength
calculate_weighted_average_wavelength(self) ==
    LET wavelength == self.wavelength.value
        scale == InverseScale(self.wavelength.unit)
    IN  IF self.detector_type = "PHOTON_COUNTER"
        THEN Ratio(calculate_wavelength_delta(self),
                   trapz(self.transmission_lambda, wavelength), 1)
        ELSE Ratio(calculate_wavelength_delta(self),
                   trapz(over(self.transmission_lambda, wavelength, scale), wavelength),
                   scale)

\* calculate_filter_flux_density
calculate_filter_flux_density(spectrum, filter) ==
    LET filtered_spectrum == mul(filter, spectrum)
    IN  IF filtered_spectrum.raised # ""
        THEN [raised |-> filtered_spectrum.raised, result |-> 0]
        ELSE IF filter.detector_type = "PHOTON_COUNTER"
        THEN [raised |-> "",
              result |-> trapz(times(filtered_spectrum.flux, filtered_spectrum.wavelength.value),
                               filtered_spectrum.wavelength.value)]
        ELSE [raised |-> "",
              result |-> trapz(filtered_spectrum.flux, filtered_spectrum.wavelength.value)]

\* np.cumsum(a)[i] and np.sum(a)
RECURSIVE cumsum(_, _)
cumsum(a, i) == IF i = 0 THEN 0 ELSE a[i] + cumsum(a, i - 1)

sum(a) == cumsum(a, Len(a))

\* a fraction such as a threshold of 0.01
Fraction(num, den) == [num |-> num, den |-> den]

\* the thresholds of the model, in (0, 0.5]
Thresholds == {Fraction(1, 100), Fraction(1, 4), Fraction(1, 2)}

\* (np.cumsum(a) / np.sum(a)).searchsorted(v): how many of the normalized
\* cumulative sums are below v; none is when the sum is 0 and all are nan
norm_cum_sum_searchsorted(a, v) ==
    IF sum(a) = 0 THEN 0
    ELSE Cardinality({i \in 1..Len(a) : cumsum(a, i) * v.den < v.num * sum(a)})

\* self.wavelength[index], an IndexError past the last sample
wavelength_at(self, index) ==
    IF index >= Len(self.wavelength.value)
    THEN [raised |-> "IndexError", result |-> 0]
    ELSE [raised |-> "", result |-> self.wavelength.value[index + 1]]

\* BaseFilterCurve.get_wavelength_start
get_wavelength_start(self, threshold) ==
    wavelength_at(self, norm_cum_sum_searchsorted(self.transmission_lambda, threshold))

\* an end that is searched for the first sum above 1 - threshold
get_wavelength_end_above(self, threshold) ==
    LET v == Fraction(threshold.den - threshold.num, threshold.den)
        a == self.transmission_lambda
    IN  wavelength_at(self, IF sum(a) = 0 THEN 0
                            ELSE Cardinality({i \in 1..Len(a) :
                                                 cumsum(a, i) * v.den <= v.num * sum(a)}))

\* BaseFilterCurve.get_wavelength_end
get_wavelength_end(self, threshold) ==
    wavelength_at(self, norm_cum_sum_searchsorted(
                            self.transmission_lambda,
                            Fraction(threshold.den - threshold.num, threshold.den)))

\* the curves of the model: a grid in one of the units, each sample blocked
\* or fully transmitting
Curves ==
    UNION {{BaseFilterCurve(Quantity([i \in 1..Len(grid) |-> grid[i] * PerNm(unit)], unit),
                            transmission_lambda, detector_type, interpolation_kind) :
               unit \in Units, detector_type \in DetectorTypes,
               interpolation_kind \in InterpolationKinds,
               transmission_lambda \in [1..Len(grid) -> {0, FullTransmission}]} :
           grid \in SampleGrids}

\* the target wavelengths in nanometres: below, at, between and above samples
TargetsNm == {1, 2, 3, 5, 8, 9}

\* the wavelength arrays a caller may pass
WavelengthArrays ==
    {Quantity(value, unit) :
        value \in UNION {[1..n -> {t * 10 : t \in TargetsNm}] : n \in 1..MaxTargets},
        unit \in {"angstrom"}}
    \cup
    {Quantity(value, unit) :
        value \in UNION {[1..n -> TargetsNm] : n \in 1..MaxTargets},
        unit \in {"nm"}}

\* spectra on those wavelengths: of unit flux, and of rising flux
Spectra ==
    {SpectrumLike(TRUE, wavelength, TRUE, [i \in 1..Len(wavelength.value) |-> 1]) :
        wavelength \in WavelengthArrays}
    \cup
    {SpectrumLike(TRUE, wavelength, TRUE, [i \in 1..Len(wavelength.value) |-> i + 1]) :
        wavelength \in WavelengthArrays}

\* objects that lack flux, wavelength or both
NotSpectra ==
    {SpectrumLike(FALSE, NoQuantity, TRUE, <<1>>),
     SpectrumLike(TRUE, Quantity(<<5>>, "nm"), FALSE, <<>>),
     SpectrumLike(FALSE, NoQuantity, FALSE, <<>>)}

\* the call op with argument arg on the curve self, and its outcome
CurveCall(op, self, arg, raised, result) ==
    [op |-> op, self |-> self, arg |-> arg, raised |-> raised, result |-> result]

InitCurve ==
    /\ CacheFresh
    /\ fset = NoFilterSet
    /\ phot = NoConversion
    /\ \E self \in Curves : curve = CurveCall("input", self, NoQuantity, "", <<>>)

\* no call on the curve is pending
AtRest == curve.op = "input"

Interpolate ==
    /\ AtRest
    /\ \E wavelength \in WavelengthArrays :
           curve' = CurveCall("interpolate", curve.self, wavelength, "",
                              interpolate(curve.self, wavelength))
    /\ UNCHANGED <<cacheVars, fset, phot>>

\* interpolate on the curve's own wavelength
InterpolateAtSamples ==
    /\ AtRest
    /\ curve' = CurveCall("interpolate", curve.self, curve.self.wavelength, "",
                          interpolate(curve.self, curve.self.wavelength))
    /\ UNCHANGED <<cacheVars, fset, phot>>

\* filter * other
Multiply ==
    /\ AtRest
    /\ \E other \in Spectra \cup NotSpectra :
           LET product == mul(curve.self, other)
           IN  curve' = CurveCall("__mul__", curve.self, other, product.raised, product)
    /\ UNCHANGED <<cacheVars, fset, phot>>

\* other * filter
RightMultiply ==
    /\ AtRest
    /\ \E other \in Spectra \cup NotSpectra :
           LET product == rmul(curve.self, other)
           IN  curve' = CurveCall("__rmul__", curve.self, other, product.raised, product)
    /\ UNCHANGED <<cacheVars, fset, phot>>

CalculateWavelengthDelta ==
    /\ AtRest
    /\ curve' = CurveCall("calculate_wavelength_delta", curve.self, NoQuantity, "",
                          calculate_wavelength_delta(curve.self))
    /\ UNCHANGED <<cacheVars, fset, phot>>

LambdaPivot ==
    /\ AtRest
    /\ curve' = CurveCall("lambda_pivot", curve.self, NoQuantity, "",
                          lambda_pivot(curve.self))
    /\ UNCHANGED <<cacheVars, fset, phot>>

CalculateWeightedAverageWavelength ==
    /\ AtRest
    /\ curve' = CurveCall("calculate_weighted_average_wavelength", curve.self, NoQuantity, "",
                          calculate_weighted_average_wavelength(curve.self))
    /\ UNCHANGED <<cacheVars, fset, phot>>

CalculateFilterFluxDensity ==
    /\ AtRest
    /\ \E spectrum \in Spectra :
           LET density == calculate_filter_flux_density(spectrum, curve.self)
           IN  curve' = CurveCall("calculate_filter_flux_density", curve.self, spectrum,
                                  density.raised, density.result)
    /\ UNCHANGED <<cacheVars, fset, phot>>

GetWavelengthStart ==
    /\ AtRest
    /\ \E threshold \in Thresholds :
           LET r == get_wavelength_start(curve.self, threshold)
           IN  curve' = CurveCall("get_wavelength_start", curve.self, threshold,
                                  r.raised, r.result)
    /\ UNCHANGED <<cacheVars, fset, phot>>

GetWavelengthEnd ==
    /\ AtRest
    /\ \E threshold \in Thresholds :
           LET r == get_wavelength_end(curve.self, threshold)
           IN  curve' = CurveCall("get_wavelength_end", curve.self, threshold,
                                  r.raised, r.result)
    /\ UNCHANGED <<cacheVars, fset, phot>>

\* the caller has taken the outcome
ReturnCurve ==
    /\ ~AtRest
    /\ curve' = CurveCall("input", curve.self, NoQuantity, "", <<>>)
    /\ UNCHANGED <<cacheVars, fset, phot>>

NextCurve ==
    \/ Interpolate
    \/ InterpolateAtSamples
    \/ Multiply
    \/ RightMultiply
    \/ CalculateWavelengthDelta
    \/ LambdaPivot
    \/ CalculateWeightedAverageWavelength
    \/ CalculateFilterFluxDensity
    \/ GetWavelengthStart
    \/ GetWavelengthEnd
    \/ ReturnCurve

SpecCurve == InitCurve /\ [][NextCurve]_vars

(* ---------------------- lazy attributes of a curve --------------------- *)

\* astropy's lazyproperty keeps the value of its first read in the
\* instance's __dict__; interp1d keeps the arrays it was built from

\* an attribute that was not read yet, and one that was and gave value
Unread == [set |-> FALSE, value |-> 0]
Kept(value) == [set |-> TRUE, value |-> value]

\* lazyproperty.__get__: the kept value, or what fget gives now
lazyproperty(kept, computed) == IF kept.set THEN kept.value ELSE computed

\* zp_ab_f_lambda as zp_ab_f_nu * c / lambda_pivot**2 of the given pivot
zp_ab_f_lambda(pivot) == [zp_ab_f_nu_Jy |-> 3631, lambda_pivot |-> pivot]

\* the grids of two samples and the transmissions a curve may be given
TwoSampleGrids == {grid \in SampleGrids : Len(grid) = 2}
TwoSampleTransmissions == [1..2 -> {0, FullTransmission}]

\* a curve, what its lazy attributes keep, the arrays of its interpolation
\* object, the count of assignments, and the last read with its value
LazyCurve(self, lazy, interpolation_object_arrays, assignments, op, attr, result) ==
    [self |-> self, lazy |-> lazy,
     interpolation_object_arrays |-> interpolation_object_arrays,
     assignments |-> assignments, op |-> op, attr |-> attr, result |-> result]

InitLazy ==
    /\ CacheFresh
    /\ fset = NoFilterSet
    /\ phot = NoConversion
    /\ \E grid \in TwoSampleGrids, transmission_lambda \in TwoSampleTransmissions,
          detector_type \in DetectorTypes :
           LET self == BaseFilterCurve(Quantity(grid, "nm"), transmission_lambda,
                                       detector_type, "linear")
           IN  curve = LazyCurve(self,
                                 [lambda_pivot |-> Unread, wavelength_start |-> Unread,
                                  zp_ab_f_lambda |-> Unread],
                                 [x |-> self.wavelength.value, y |-> self.transmission_lambda],
                                 0, "input", "", 0)

\* the curve after a read of attr that gave result and left lazy kept
AfterRead(lazy, attr, result) ==
    LazyCurve(curve.self, lazy, curve.interpolation_object_arrays,
              curve.assignments, "read", attr, result)

\* self.lambda_pivot
ReadLambdaPivot ==
    /\ LET value == lazyproperty(curve.lazy.lambda_pivot, lambda_pivot(curve.self))
       IN  curve' = AfterRead([curve.lazy EXCEPT !.lambda_pivot = Kept(value)],
                              "lambda_pivot", value)
    /\ UNCHANGED <<cacheVars, fset, phot>>

\* self.wavelength_start
ReadWavelengthStart ==
    /\ LET value == lazyproperty(curve.lazy.wavelength_start,
                                 get_wavelength_start(curve.self, Fraction(1, 100)).result)
       IN  curve' = AfterRead([curve.lazy EXCEPT !.wavelength_start = Kept(value)],
                              "wavelength_start", value)
    /\ UNCHANGED <<cacheVars, fset, phot>>

\* self.zp_ab_f_lambda, which reads self.lambda_pivot
ReadZpAbFLambda ==
    /\ LET pivot == lazyproperty(curve.lazy.lambda_pivot, lambda_pivot(curve.self))
           value == lazyproperty(curve.lazy.zp_ab_f_lambda, zp_ab_f_lambda(pivot))
       IN  curve' = AfterRead([curve.lazy EXCEPT
                                  !.lambda_pivot = IF curve.lazy.zp_ab_f_lambda.set
                                                   THEN @ ELSE Kept(pivot),
                                  !.zp_ab_f_lambda = Kept(value)],
                              "zp_ab_f_lambda", value)
    /\ UNCHANGED <<cacheVars, fset, phot>>

\* self.interpolate(self.wavelength), through the object built by __init__
ReadInterpolation ==
    /\ LET arrays == curve.interpolation_object_arrays
           converted_wavelength == Quantity_to(curve.self.wavelength,
                                               curve.self.wavelength.unit)
       IN  curve' = AfterRead(curve.lazy, "interpolate",
                              [i \in 1..Len(converted_wavelength.value) |->
                                  interp1d(arrays.x, arrays.y, curve.self.interpolation_kind,
                                           0, converted_wavelength.value[i])])
    /\ UNCHANGED <<cacheVars, fset, phot>>

\* the curve after an assignment that made it self
AfterAssignment(self, attr) ==
    LazyCurve(self, curve.lazy, curve.interpolation_object_arrays,
              curve.assignments + 1, "assign", attr, 0)

\* self.wavelength = ...
AssignWavelength ==
    /\ curve.assignments < MaxAssignments
    /\ \E grid \in TwoSampleGrids :
           curve' = AfterAssignment([curve.self EXCEPT !.wavelength = Quantity(grid, "nm")],
                                    "wavelength")
    /\ UNCHANGED <<cacheVars, fset, phot>>

\* self.transmission_lambda = ...
AssignTransmission ==
    /\ curve.assignments < MaxAssignments
    /\ \E transmission_lambda \in TwoSampleTransmissions :
           curve' = AfterAssignment([curve.self EXCEPT
                                        !.transmission_lambda = transmission_lambda],
                                    "transmission_lambda")
    /\ UNCHANGED <<cacheVars, fset, phot>>

\* self.detector_type = ...
AssignDetectorType ==
    /\ curve.assignments < MaxAssignments
    /\ \E detector_type \in DetectorTypes :
           curve' = AfterAssignment([curve.self EXCEPT !.detector_type = detector_type],
                                    "detector_type")
    /\ UNCHANGED <<cacheVars, fset, phot>>

NextLazy ==
    \/ ReadLambdaPivot
    \/ ReadWavelengthStart
    \/ ReadZpAbFLambda
    \/ ReadInterpolation
    \/ AssignWavelength
    \/ AssignTransmission
    \/ AssignDetectorType

SpecLazy == InitLazy /\ [][NextLazy]_vars

(* ---------------------------- MagnitudeSet ----------------------------- *)

\* Python's None, and a sequence passed as an argument
PyNone == [py_type |-> "NoneType", ndim |-> 0, data |-> <<>>]
PyList(data) == [py_type |-> "list", ndim |-> 1, data |-> data]

\* np.array(value): a 0-dimensional array holding None when value is None
np_array(value) ==
    IF value.py_type = "NoneType"
    THEN [py_type |-> "ndarray", ndim |-> 0, data |-> <<>>]
    ELSE [py_type |-> "ndarray", ndim |-> 1, data |-> value.data]

\* value is None
is_None(value) == value.py_type = "NoneType"

\* MagnitudeSet.__init__
MagnitudeSet(filter_set, magnitudes, magnitude_uncertainties) ==
    [filter_set |-> filter_set,
     magnitudes |-> np_array(magnitudes),
     magnitude_uncertainties |-> np_array(magnitude_uncertainties)]

\* MagnitudeSpectralModel.__init__ up to flux and flux_err: the conversion
\* of the magnitudes, then of the uncertainties unless they are None;
\* zip() over a 0-dimensional array raises TypeError
MagnitudeSpectralModel(magnitude_set, magnitude_system) ==
    LET flux == IF magnitude_system = "ab"
                THEN convert_ab_magnitudes_to_f_lambda(
                         magnitude_set.filter_set, magnitude_set.magnitudes.data)
                ELSE convert_vega_magnitudes_to_f_lambda(
                         magnitude_set.filter_set, magnitude_set.magnitudes.data)
        uncertainties == magnitude_set.magnitude_uncertainties
        flux_err == IF magnitude_system = "ab"
                    THEN convert_ab_magnitude_uncertainties_to_f_lambda_uncertainties(
                             magnitude_set.filter_set, magnitude_set.magnitudes.data,
                             uncertainties.data)
                    ELSE convert_vega_magnitude_uncertainties_to_f_lambda_uncertainties(
                             magnitude_set.filter_set, magnitude_set.magnitudes.data,
                             uncertainties.data)
    IN  IF flux.raised # ""
        THEN [raised |-> flux.raised, flux |-> <<>>, flux_err |-> PyNone]
        ELSE IF is_None(uncertainties)
        THEN [raised |-> "", flux |-> flux.result, flux_err |-> PyNone]
        ELSE IF uncertainties.ndim = 0
        THEN [raised |-> "TypeError", flux |-> <<>>, flux_err |-> PyNone]
        ELSE IF flux_err.raised # ""
        THEN [raised |-> flux_err.raised, flux |-> <<>>, flux_err |-> PyNone]
        ELSE [raised |-> "", flux |-> flux.result, flux_err |-> PyList(flux_err.result)]

\* the arguments of a MagnitudeSet, the object made of them, and the last
\* call with its outcome
MagnitudeSetCall(op, filter_set, magnitudes, magnitude_uncertainties, object, raised, result) ==
    [op |-> op, filter_set |-> filter_set, magnitudes |-> magnitudes,
     magnitude_uncertainties |-> magnitude_uncertainties, object |-> object,
     raised |-> raised, result |-> result]

NoObject == [py_type |-> "NoneType"]

InitMagSet ==
    /\ CacheFresh
    /\ fset = NoFilterSet
    /\ curve = NoCurve
    /\ \E n \in 1..MaxSetSize : \E mags \in MagnitudeLists :
       \E uncs \in {PyNone} \cup {PyList(l) : l \in UncertaintyLists} :
           phot = MagnitudeSetCall("input", [i \in 1..n |-> FilterOf(i)], PyList(mags), uncs,
                                   NoObject, "", <<>>)

\* MagnitudeSet(filter_set, magnitudes, magnitude_uncertainties)
NewMagnitudeSet ==
    /\ phot.op = "input"
    /\ phot' = [phot EXCEPT !.op = "MagnitudeSet",
                            !.object = MagnitudeSet(phot.filter_set, phot.magnitudes,
                                                    phot.magnitude_uncertainties)]
    /\ UNCHANGED <<cacheVars, fset, curve>>

\* MagnitudeSpectralModel(magnitude_set, magnitude_system)
NewMagnitudeSpectralModel ==
    /\ phot.op = "MagnitudeSet"
    /\ \E magnitude_system \in {"ab", "vega"} :
           LET model == MagnitudeSpectralModel(phot.object, magnitude_system)
           IN  phot' = [phot EXCEPT !.op = "MagnitudeSpectralModel",
                                    !.raised = model.raised, !.result = model]
    /\ UNCHANGED <<cacheVars, fset, curve>>

NextMagSet ==
    \/ NewMagnitudeSet
    \/ NewMagnitudeSpectralModel

SpecMagSet == InitMagSet /\ [][NextMagSet]_vars

(* ------------------- the check at the start of a process --------------- *)

\* days after which the cache counts as out of date
StaleDays == 30

\* a cache_updation_date in the configuration that is no date
InvalidDate == [kind |-> "invalid", day |-> 0]

IndexVot == <<"i", "n", "d", "e", "x", ".", "v", "o", "t">>
SvoIndexVot == <<"s", "v", "o", "_">> \o IndexVot

\* os.listdir(cache_dir): the facility directories and the index file
listdir(w) ==
    {d \in w.dirs : CountSlash(d) = 0}
        \cup (IF w.indexFile.exists THEN {SvoIndexVot} ELSE {})

\* rectify_cache_updation_date: a critical message, then the date of the
\* last modification of index.vot (mtime, were there such a file) is saved
rectify_cache_updation_date(w, error_log, mtime) ==
    LET warned == Logged(w, "critical", <<"unexpected changes", error_log>>)
    IN  IF IndexVot \notin listdir(w)
        THEN [raised |-> "FileNotFoundError", date |-> NoDate, w |-> warned]
        ELSE [raised |-> "", date |-> [kind |-> "date", day |-> mtime],
              w |-> [warned EXCEPT !.stamp = [kind |-> "date", day |-> mtime]]]

\* get_cache_updation_date
get_cache_updation_date(w, day, mtime) ==
    IF w.stamp.kind = "none"
    THEN IF listdir(w) # {}
         THEN rectify_cache_updation_date(w, "No date present, even when cache exists", mtime)
         ELSE [raised |-> "", date |-> NoDate, w |-> w]
    ELSE IF w.stamp.kind = "invalid"
    THEN rectify_cache_updation_date(w, "Invalid date value", mtime)
    ELSE IF w.stamp.day > day
    THEN rectify_cache_updation_date(w, "Date belongs to future", mtime)
    ELSE [raised |-> "", date |-> w.stamp, w |-> w]

\* a check that warns from the thirtieth day on
import_wsynphot_from_thirtieth(w, day, mtime) ==
    LET got == get_cache_updation_date(w, day, mtime)
    IN  IF got.raised # "" THEN [raised |-> got.raised, w |-> got.w]
        ELSE IF got.date.kind = "date" /\ day - got.date.day >= StaleDays
        THEN [raised |-> "", w |-> Logged(got.w, "critical", <<"more than a month">>)]
        ELSE [raised |-> "", w |-> got.w]

\* import wsynphot: the check at the end of wsynphot/__init__.py
import_wsynphot(w, day, mtime) ==
    LET got == get_cache_updation_date(w, day, mtime)
    IN  IF got.raised # "" THEN [raised |-> got.raised, w |-> got.w]
        ELSE IF got.date.kind = "date" /\ day - got.date.day > StaleDays
        THEN [raised |-> "", w |-> Logged(got.w, "critical", <<"more than a month">>)]
        ELSE [raised |-> "", w |-> got.w]

\* a process starts
ImportWsynphot ==
    /\ last = Idle
    /\ \E mtime \in 0..today :
           LET r == import_wsynphot(Now, today, mtime)
           IN  /\ Becomes(r.w)
               /\ last' = Outcome("import", FALSE, <<>>, <<>>, r.raised, <<>>, FALSE, r.w.log)
               /\ UNCHANGED today

\* download_filter_data([filter_id]) of one filter
ListedDownload ==
    /\ last = Idle
    /\ \E failPos \in SUBSET {1} :
           LET r == download_filter_data(TRUE, <<SvoA>>, [ok |-> FALSE, ids |-> <<>>],
                                         failPos, today, Now)
           IN  /\ Becomes(r.w)
               /\ last' = Outcome("download_filter_data", TRUE, <<SvoA>>, <<>>,
                                  r.raised, r.failed, FALSE, r.w.log)
               /\ UNCHANGED today

\* download_filter_data() when the archive lists one filter or fails
FullDownload ==
    /\ last = Idle
    /\ \E fetch \in {[ok |-> FALSE, ids |-> <<>>], [ok |-> TRUE, ids |-> <<SvoA>>]} :
       \E failPos \in SUBSET (1..Len(fetch.ids)) :
           LET r == download_filter_data(FALSE, <<>>, fetch, failPos, today, Now)
           IN  /\ Becomes(r.w)
               /\ last' = Outcome("download_filter_data", FALSE, <<>>, fetch.ids,
                                  r.raised, r.failed, FALSE, r.w.log)
               /\ UNCHANGED today

\* download_svo_filters_index() when the archive lists one filter
IndexDownload ==
    /\ last = Idle
    /\ LET r == download_svo_filters_index([ok |-> TRUE, ids |-> <<SvoA>>], Now)
       IN  /\ Becomes(r.w)
           /\ last' = Outcome("download_svo_filters_index", FALSE, <<>>, <<SvoA>>,
                              r.raised, <<>>, FALSE, r.w.log)
           /\ UNCHANGED today

\* the user writes a cache_updation_date into the configuration file: no
\* date at all, or tomorrow's
EditConfiguration ==
    /\ last = Idle
    /\ stamp' \in {InvalidDate, [kind |-> "date", day |-> today + 1]}
    /\ UNCHANGED <<files, dirs, indexFile, today, last>>
    /\ UNCHANGED objectVars

\* a day passes between two processes
DayPasses ==
    /\ last = Idle
    /\ today < MaxWait
    /\ today' = today + 1
    /\ UNCHANGED <<files, dirs, indexFile, stamp, last>>
    /\ UNCHANGED objectVars

NextStart ==
    \/ ImportWsynphot
    \/ ListedDownload
    \/ FullDownload
    \/ IndexDownload
    \/ EditConfiguration
    \/ DayPasses
    \/ Return

SpecStart == Init /\ [][NextStart]_vars

(* --------------------------- the local listing ------------------------- *)

\* every file below the cache directory, relative to it
DiskPaths(w) == w.files \cup (IF w.indexFile.exists THEN {SvoIndexVot} ELSE {})

\* load_transmission_data of each id of a listing from position k on
RECURSIVE load_each_from(_, _, _, _)
load_each_from(ids, k, w, failed) ==
    IF k > Len(ids) THEN [w |-> w, failed |-> failed]
    ELSE LET r == load_transmission_data(ids[k], w)
         IN  load_each_from(ids, k + 1, r.w,
                 IF r.raised # "" THEN Append(failed, ids[k]) ELSE failed)

\* list_filters(), then load_transmission_data of every id it returned;
\* the listing comes in the order glob gave
ListFilters ==
    /\ last = Idle
    /\ \E listing \in Orderings(load_local_filters_index(DiskPaths(Now))) :
           LET r == load_each_from(listing, 1, Now, <<>>)
           IN  /\ Becomes(r.w)
               /\ last' = Outcome("load_local_filters_index", FALSE, <<>>, listing,
                                  "", r.failed, FALSE, r.w.log)
               /\ UNCHANGED today

\* the user deletes a transmission file from the cache directory
RemoveFile ==
    /\ last = Idle
    /\ \E p \in files : files' = files \ {p}
    /\ UNCHANGED <<dirs, indexFile, stamp, today, last>>
    /\ UNCHANGED objectVars

NextListing ==
    \/ DownloadFilterData
    \/ DownloadAllFilterData
    \/ UpdateFilterData
    \/ RemoveFile
    \/ ListFilters
    \/ Return

SpecListing == Init /\ [][NextListing]_vars

(* ----------------------- the batched index fetch ------------------------ *)

\* rows of the archive's filter table
Rows == {"r1", "r2"}

\* what the archive answers for one wavelength bin: a VOTable without a
\* table element (written <<>>) or the rows of the filters in the bin
BinResponses == {<<>>, <<"r1">>, <<"r2">>, <<"r1", "r2">>}

\* decades of wavelength that one bin can span
DecadesPerBin == {1, 2}

\* wavelengths are counted in units of 100 angstrom: 10**3 angstrom is 10
WaveUnitExponent == 2

\* np.log10 of a power of ten
log10(x) == WaveUnitExponent + (CHOOSE e \in 0..9 : Pow10(e) = x)

\* np.logspace(start, stop, num) where the steps are whole decades
logspace(start, stop, num) ==
    [k \in 1..num |->
        Pow10(start + ((k - 1) * (stop - start)) \div (num - 1) - WaveUnitExponent)]

\* a name of the function body that no assignment has bound yet
Unbound == [bound |-> FALSE, rows |-> <<>>]

\* data_from_svo(query, error_msg).to_table()
data_from_svo(response) ==
    IF response = <<>>
    THEN [raised |-> "ValueError", table |-> Unbound]
    ELSE [raised |-> "", table |-> [bound |-> TRUE, rows |-> response]]

\* astropy.table.vstack of two tables
vstack(first, second) == [bound |-> TRUE, rows |-> first.rows \o second.rows]

\* the loop of get_filter_index_in_batches from batch i on, and its end
RECURSIVE batches_from(_, _, _, _, _, _)
batches_from(i, n_batches, wavelength_eff_bins, responses, data, queries) ==
    IF i >= n_batches
    THEN [raised |-> IF data.bound THEN "" ELSE "UnboundLocalError",
          data |-> data, queries |-> queries]
    ELSE LET query == <<wavelength_eff_bins[i + 1], wavelength_eff_bins[i + 2]>>
             asked == Append(queries, query)
             got   == data_from_svo(responses[i + 1])
         IN  IF got.raised = "ValueError"
             THEN batches_from(i + 1, n_batches, wavelength_eff_bins, responses, data, asked)
             ELSE IF i = 0
             THEN batches_from(i + 1, n_batches, wavelength_eff_bins, responses,
                               got.table, asked)
             ELSE IF ~data.bound
             THEN [raised |-> "UnboundLocalError", data |-> data, queries |-> asked]
             ELSE batches_from(i + 1, n_batches, wavelength_eff_bins, responses,
                               vstack(data, got.table), asked)

\* get_filter_index_in_batches(n_batches) when the archive's wavelength
\* range is (wave_min, wave_max) and it answers the i-th query by responses[i]
get_filter_index_in_batches(n_batches, wave_min, wave_max, responses) ==
    LET spaced == logspace(3, log10(wave_max), n_batches + 1)
        wavelength_eff_bins == [spaced EXCEPT ![1] = wave_min]
    IN  batches_from(0, n_batches, wavelength_eff_bins, responses, Unbound, <<>>)

\* what a call of get_filter_index_in_batches was given and what it gave
BatchCall(n_batches, wave_min, wave_max, responses, r) ==
    [op |-> "get_filter_index_in_batches", n_batches |-> n_batches,
     wave_min |-> wave_min, wave_max |-> wave_max, responses |-> responses,
     raised |-> r.raised, data |-> r.data, queries |-> r.queries]

\* get_filter_index_in_batches(n_batches)
GetFilterIndexInBatches ==
    /\ last = Idle
    /\ \E n_batches \in 1..MaxBatches : \E wave_min \in {1, 5} :
       \E decades \in DecadesPerBin :
       \E responses \in [1..n_batches -> BinResponses] :
           LET wave_max == Pow10(3 + n_batches * decades - WaveUnitExponent)
           IN  last' = BatchCall(n_batches, wave_min, wave_max, responses,
                           get_filter_index_in_batches(n_batches, wave_min,
                                                       wave_max, responses))
    /\ UNCHANGED <<files, dirs, indexFile, stamp, today>>
    /\ UNCHANGED objectVars

NextBatches ==
    \/ GetFilterIndexInBatches
    \/ Return

SpecBatches == Init /\ [][NextBatches]_vars

(* ------------------ vocabulary of the properties ----------------------- *)

\* the separators of the identifier grammar
Separators == {"/", "."}

\* the components of an identifier: its pieces between separators
RECURSIVE ComponentsFrom(_, _, _)
ComponentsFrom(id, cur, acc) ==
    IF id = <<>> THEN Append(acc, cur)
    ELSE IF Head(id) \in Separators
         THEN ComponentsFrom(Tail(id), <<>>, Append(acc, cur))
         ELSE ComponentsFrom(Tail(id), Append(cur, Head(id)), acc)

Components(id) == ComponentsFrom(id, <<>>, <<>>)

\* every spelling of an identifier: each separator replaced by either one
RECURSIVE Spellings(_)
Spellings(id) ==
    IF id = <<>> THEN {<<>>}
    ELSE IF Head(id) \in Separators
         THEN {<<c>> \o r : c \in Separators, r \in Spellings(Tail(id))}
         ELSE {<<Head(id)>> \o r : r \in Spellings(Tail(id))}

\* <facility>/<instrument>/<filter_name>.vot for a three-component identifier
CacheFile(id) ==
    LET parts == Components(id)
    IN  IF Len(parts) < 3 THEN <<>>
        ELSE parts[1] \o <<"/">> \o parts[2] \o <<"/">> \o parts[3] \o VotExt

\* the cache files of the filters listed in an index
IndexFiles(ids) == {CacheFile(ids[i]) : i \in 1..Len(ids)}

\* the cached transmission files
CachedFiles == {p \in files : GlobMatch(p)}

\* did the operation record the event
Did(log, e, p) == \E i \in 1..Len(log) : log[i] = Ev(e, p)

\* the event was recorded and every event of kind e2 comes after it
Before(log, e1, e2) ==
    \E i \in 1..Len(log) :
        /\ log[i].e = e1
        /\ \A j \in 1..Len(log) : log[j].e = e2 => i < j

\* update_filter_data has just returned (it did not raise)
UpdateReturns ==
    last = Idle /\ last'.op = "update_filter_data" /\ last'.raised = ""

PathA == CacheFile(SvoA)
PathB == CacheFile(SvoB)
PathC == CacheFile(SvoC)

(* ------------------------------ update --------------------------------- *)

\* C1: update() leaves unchanged entries untouched: a filter cached before the
\* call and listed in the freshly fetched index is neither removed nor
\* downloaded again during the update and is still cached when it returns.
C1_UnchangedEntriesUntouched ==
    [][UpdateReturns =>
         \A i \in 1..Len(last'.fetched) :
             LET id == last'.fetched[i] IN
             CacheFile(id) \in files =>
                 /\ CacheFile(id) \in files'
                 /\ ~Did(last'.log, "remove", CacheFile(id))
                 /\ ~Did(last'.log, "attempt", id)
                 /\ ~Did(last'.log, "request", id)]_vars

\* C2: update() returns False, removes nothing and downloads nothing whenever
\* the cached filters are exactly the filters of the fetched index, and it
\* returns True only when an entry had to be removed or added.
C2_ReturnsWhetherChanged ==
    [][UpdateReturns =>
         /\ CachedFiles = IndexFiles(last'.fetched) =>
                /\ last'.ret = FALSE
                /\ \A i \in 1..Len(last'.log) :
                       last'.log[i].e \notin {"remove", "attempt", "request", "write"}
                /\ files' = files
         /\ last'.ret = TRUE => CachedFiles # IndexFiles(last'.fetched)]_vars

\* C3: update() reconciles the cache with the fetched index: the file of every
\* cached filter that the index does not list is gone afterwards, and every
\* listed filter that was not cached has a download attempted and, when that
\* download wrote its table, has its file at <facility>/<instrument>/<name>.vot.
C3_UpdateReconciles ==
    [][UpdateReturns =>
         /\ \A p \in CachedFiles :
                p \notin IndexFiles(last'.fetched) =>
                    p \notin files' /\ Did(last'.log, "remove", p)
         /\ \A i \in 1..Len(last'.fetched) :
                LET id == last'.fetched[i] IN
                CacheFile(id) \notin files =>
                    /\ Did(last'.log, "attempt", id)
                    /\ Did(last'.log, "write", CacheFile(id)) => CacheFile(id) \in files'
                    /\ CacheFile(id) \in files' => Did(last'.log, "write", CacheFile(id))]_vars

\* old {A, B}, new {B, C}: A's file was removed and C's file was written
C3_Witness ==
    /\ last.op = "update_filter_data"
    /\ last.raised = ""
    /\ Range(last.fetched) = {SvoB, SvoC}
    /\ Did(last.log, "remove", PathA)
    /\ Did(last.log, "write", PathC)
    /\ PathA \notin files
    /\ {PathB, PathC} \subseteq files

\* C4: update() records today's date as the update date whenever it returns,
\* also when it returns False and when downloads of new entries failed, and it
\* records it after the removals and downloads of that update.
C4_UpdateAlwaysStamps ==
    [][UpdateReturns =>
         /\ stamp' = [kind |-> "date", day |-> today]
         /\ Len(last'.log) > 0
         /\ last'.log[Len(last'.log)] = Ev("stamp", <<>>)
         /\ \A i \in 1..(Len(last'.log) - 1) : last'.log[i].e # "stamp"]_vars

\* an update on a later day than the recorded one in which a download failed
C4_Witness ==
    /\ last.op = "update_filter_data"
    /\ last.raised = ""
    /\ \E i \in 1..Len(last.log) :
           /\ last.log[i].e = "request"
           /\ ~Did(last.log, "write", CacheFile(last.log[i].p))
    /\ Did(last.log, "remove", PathA)
    /\ stamp = [kind |-> "date", day |-> today]
    /\ today > 0

(* ----------------------------- downloads ------------------------------ *)

\* download_filter_data has just returned (it did not raise)
DownloadReturned ==
    last.op = "download_filter_data" /\ last.raised = ""

\* the filter ids the returned download_filter_data call had to download
DownloadIds == IF last.given THEN last.arg ELSE last.fetched

\* the positions in the record of the attempts, in order
AttemptAt(log) == {i \in 1..Len(log) : log[i].e = "attempt"}

\* the position in the record of the k-th attempt
NthAttempt(log, k) ==
    CHOOSE i \in AttemptAt(log) : Cardinality({j \in AttemptAt(log) : j <= i}) = k

\* the files written by the k-th attempt
WrittenBy(log, k) ==
    {log[j].p : j \in {m \in (NthAttempt(log, k) + 1)..Len(log) :
                          /\ log[m].e = "write"
                          /\ \A n \in (NthAttempt(log, k) + 1)..m : log[n].e # "attempt"}}

\* the positions of the list whose download raised: nothing was written
FailedPositions(log, n) == {k \in 1..n : WrittenBy(log, k) = {}}

\* the entries of ids at the positions in F, in the order of ids
RECURSIVE Pick(_, _, _)
Pick(ids, k, F) ==
    IF k > Len(ids) THEN <<>>
    ELSE (IF k \in F THEN <<ids[k]>> ELSE <<>>) \o Pick(ids, k + 1, F)

\* C5: download_filter_data records the update date if and only if it was
\* called without filter_ids and no download failed; in every other call the
\* recorded date stays as it was.
C5_StampIffAllAndNoFailure ==
    [][(last = Idle /\ last'.op = "download_filter_data") =>
         /\ Did(last'.log, "stamp", <<>>)
                <=> (last'.raised = "" /\ ~last'.given /\ last'.failed = <<>>)
         /\ Did(last'.log, "stamp", <<>>) => stamp' = [kind |-> "date", day |-> today]
         /\ ~Did(last'.log, "stamp", <<>>) => stamp' = stamp]_vars

\* a download of everything without a failure, on a later day than the start
C5_Witness ==
    /\ DownloadReturned
    /\ ~last.given
    /\ last.failed = <<>>
    /\ Len(last.fetched) >= 2
    /\ stamp = [kind |-> "date", day |-> today]
    /\ today > 0

\* C6: download_filter_data without filter_ids fetches and persists the index
\* before it downloads any transmission data, and when it returns the index
\* file exists and every filter id in it has its file in the cache or is in
\* the returned failure list.
C6_IndexFirstThenEveryFilter ==
    (DownloadReturned /\ ~last.given) =>
        /\ indexFile = [exists |-> TRUE, ids |-> last.fetched]
        /\ Before(last.log, "request_index", "write_index")
        /\ Before(last.log, "write_index", "attempt")
        /\ Before(last.log, "write_index", "request")
        /\ \A i \in 1..Len(indexFile.ids) :
               \/ CacheFile(indexFile.ids[i]) \in files
               \/ \E j \in 1..Len(last.failed) : last.failed[j] = indexFile.ids[i]

\* a download of everything in which one filter failed and another did not
C6_Witness ==
    /\ DownloadReturned
    /\ ~last.given
    /\ Len(last.failed) = 1
    /\ CacheFile(last.failed[1]) \notin files
    /\ \E i \in 1..Len(indexFile.ids) : CacheFile(indexFile.ids[i]) \in files

\* C7: a failing download never aborts a bulk download: every id of the list
\* is attempted exactly once, in input order, every id whose download
\* succeeded is cached, and the ids returned are exactly the failed ones, in
\* input order; an identifier that is not a triplet is among the failed ones.
C7_BulkDownloadNeverAborts ==
    DownloadReturned =>
        LET ids == DownloadIds
            log == last.log
            F   == FailedPositions(log, Len(ids))
        IN  /\ Cardinality(AttemptAt(log)) = Len(ids)
            /\ \A k \in 1..Len(ids) : log[NthAttempt(log, k)].p = ids[k]
            /\ \A k \in (1..Len(ids)) \ F :
                   /\ WrittenBy(log, k) = {CacheFile(ids[k])}
                   /\ CacheFile(ids[k]) \in files
            /\ \A k \in 1..Len(ids) : Len(Components(ids[k])) # 3 => k \in F
            /\ last.failed = Pick(ids, 1, F)

\* a list whose first download failed and whose second succeeded
C7_Witness ==
    /\ DownloadReturned
    /\ last.given
    /\ Len(last.arg) = 2
    /\ last.failed = <<last.arg[1]>>
    /\ CacheFile(last.arg[2]) \in files
    /\ Len(Components(last.arg[1])) = 3

(* ------------------------------ loading -------------------------------- *)

\* is a filter with the same triplet listed in the persisted index
InIndex(id) ==
    \E i \in 1..Len(indexFile.ids) : Components(indexFile.ids[i]) = Components(id)

\* C8: loading a filter id that is absent from the index raises NotFoundError
\* (ValueError), loading one that is in the index but was never downloaded
\* raises NotCachedError (IOError), and the two never give the same error.
C8_MissingFilterDistinction ==
    (/\ last.op = "load_transmission_data"
     /\ Len(Components(last.arg[1])) = 3
     /\ indexFile.exists
     /\ CacheFile(last.arg[1]) \notin files) =>
        /\ ~InIndex(last.arg[1]) => last.raised = "ValueError"
        /\ InIndex(last.arg[1]) => last.raised = "IOError"

\* C9: the separators are interchangeable: every spelling of an identifier
\* has the same triplet, and once download_transmission_data succeeded for one
\* spelling, load_transmission_data succeeds for every spelling and reads the
\* file that download wrote.
C9_SeparatorsInterchangeable ==
    (last.op = "download_transmission_data" /\ last.raised = "") =>
        \A other \in Spellings(last.arg[1]) :
            LET loaded == load_transmission_data(other, Now) IN
            /\ re_split(other) = re_split(last.arg[1])
            /\ loaded.raised = ""
            /\ loaded.w.log = <<Ev("read", last.log[Len(last.log)].p)>>
            /\ last.log[Len(last.log)].e = "write"
            /\ last.log[Len(last.log)].p \in files

\* a download under a spelling that is not the archive's
C9_Witness ==
    /\ last.op = "download_transmission_data"
    /\ last.raised = ""
    /\ last.arg = << <<"H", ".", "W", "/", "A">> >>
    /\ PathA \in files

\* C10: an identifier that does not have exactly three components is rejected
\* by download_transmission_data and by load_transmission_data with an error,
\* before any request to the archive and without touching the cache.
C10_MalformedIdRejected ==
    [][(/\ last = Idle
        /\ last'.op \in {"download_transmission_data", "load_transmission_data"}
        /\ Len(Components(last'.arg[1])) # 3) =>
          /\ last'.raised = "ValueError"
          /\ last'.log = <<>>
          /\ UNCHANGED <<files, dirs, indexFile, stamp>>]_vars

\* a download of an identifier with four components was rejected
C10_Witness ==
    /\ last.op = "download_transmission_data"
    /\ Len(Components(last.arg[1])) = 4
    /\ last.raised = "ValueError"
    /\ files # {}

(* --------------------------- the master index -------------------------- *)

\* C11: loading the master index from a cache directory in which no index was
\* ever downloaded raises an IO error whose message names the download
\* function, and returns no index at all; once download_svo_filters_index has
\* returned, the same call succeeds and returns a non-empty filterID column.
C11_IndexMissingOrLoaded ==
    /\ ~indexFile.exists =>
           /\ load_svo_filters_index(Now).raised = "IOError"
           /\ load_svo_filters_index(Now).remedy = "download_svo_filters_index"
    /\ last.op = "load_svo_filters_index" =>
           IF indexFile.exists
           THEN last.raised = "" /\ last.fetched = indexFile.ids /\ Len(last.fetched) > 0
           ELSE last.raised = "IOError" /\ last.fetched = <<>>
    /\ (last.op = "download_svo_filters_index" /\ last.raised = "") =>
           /\ load_svo_filters_index(Now).raised = ""
           /\ load_svo_filters_index(Now).ids = last.fetched
           /\ Len(load_svo_filters_index(Now).ids) > 0

\* the index was asked for in a cache directory that holds filters but no index
C11_Witness ==
    /\ last.op = "load_svo_filters_index"
    /\ last.raised = "IOError"
    /\ ~indexFile.exists
    /\ files # {}

(* ------------------------ FilterSet iteration -------------------------- *)

\* C12: iteration over a FilterSet is restartable and supports independent
\* traversals: however two loops over the same set are interleaved, a loop
\* that has ended has yielded every filter exactly once, in collection order.
C12_IndependentTraversals ==
    \A t \in Traversals : fset.pc[t] = "done" => fset.got[t] = fset.filters

(* ----------------------- magnitude conversions ------------------------ *)

\* the number of filters of the FilterSet whose magnitudes are converted
NumFilters == Len(phot.filter_set)

\* the zero point that the call at hand is to use for filter i
ZeroPointOf(i) ==
    IF phot.op \in {"convert_ab_magnitudes_to_f_lambda",
                    "convert_ab_magnitude_uncertainties_to_f_lambda_uncertainties",
                    "calculate_ab_magnitude"}
    THEN phot.filter_set[i].zp_ab_f_lambda
    ELSE phot.filter_set[i].zp_vega_f_lambda

\* the flux density of magnitude mag in filter i: 10**(-0.4 mag) times zero point
FluxOf(i, mag) == ZeroPointOf(i) * Pow10(FluxShift - mag)

MagnitudeCalls ==
    {"convert_ab_magnitudes_to_f_lambda", "convert_vega_magnitudes_to_f_lambda"}

UncertaintyCalls ==
    {"convert_ab_magnitude_uncertainties_to_f_lambda_uncertainties",
     "convert_vega_magnitude_uncertainties_to_f_lambda_uncertainties"}

\* C13: convert_ab_magnitudes_to_f_lambda and convert_vega_magnitudes_to_f_lambda
\* on N filters raise ValueError for every magnitudes sequence whose length is
\* not N and compute nothing then; for N magnitudes they return N values, the
\* i-th being the flux density of magnitude i in filter i.
C13_MagnitudesLengthChecked ==
    phot.op \in MagnitudeCalls =>
        IF Len(phot.magnitudes) # NumFilters
        THEN phot.raised = "ValueError" /\ phot.result = <<>>
        ELSE /\ phot.raised = ""
             /\ Len(phot.result) = NumFilters
             /\ \A i \in 1..NumFilters : phot.result[i] = FluxOf(i, phot.magnitudes[i])

\* more magnitudes than filters were passed
C13_Witness ==
    /\ phot.op = "convert_ab_magnitudes_to_f_lambda"
    /\ Len(phot.magnitudes) > NumFilters
    /\ NumFilters = 2
    /\ phot.raised = "ValueError"

\* C14: the uncertainty conversions raise an error whenever the uncertainties
\* sequence has another length than the N filters and N magnitudes, also for
\* length 1 and for lengths greater than N.
C14_UncertaintiesLengthChecked ==
    (/\ phot.op \in UncertaintyCalls
     /\ Len(phot.magnitudes) = NumFilters
     /\ Len(phot.magnitude_uncertainties) # NumFilters) =>
        phot.raised = "ValueError"

\* C15: for N filters, N magnitudes m and N uncertainties s the uncertainty
\* conversions return two rows of N values, |F_i(m_i + s_i) - F_i(m_i)| and
\* |F_i(m_i - s_i) - F_i(m_i)|, none of them negative.
C15_UncertaintiesByReevaluation ==
    (/\ phot.op \in UncertaintyCalls
     /\ Len(phot.magnitudes) = NumFilters
     /\ Len(phot.magnitude_uncertainties) = NumFilters) =>
        /\ phot.raised = ""
        /\ Len(phot.result) = 2
        /\ Len(phot.result[1]) = NumFilters
        /\ Len(phot.result[2]) = NumFilters
        /\ \A i \in 1..NumFilters :
               LET m == phot.magnitudes[i]
                   u == phot.magnitude_uncertainties[i]
                   up   == FluxOf(i, m + u) - FluxOf(i, m)
                   down == FluxOf(i, m - u) - FluxOf(i, m)
               IN  /\ phot.result[1][i] = (IF up < 0 THEN 0 - up ELSE up)
                   /\ phot.result[2][i] = (IF down < 0 THEN 0 - down ELSE down)
                   /\ phot.result[1][i] >= 0
                   /\ phot.result[2][i] >= 0

\* two filters with a non-zero uncertainty: the two rows differ
C15_Witness ==
    /\ phot.op = "convert_ab_magnitude_uncertainties_to_f_lambda_uncertainties"
    /\ NumFilters = 2
    /\ Len(phot.magnitudes) = 2
    /\ phot.magnitude_uncertainties = <<1, 1>>
    /\ phot.raised = ""
    /\ phot.result[1] # phot.result[2]

\* C19: converting a magnitude to a flux density and computing
\* -2.5 log10(flux / zero point) of it gives the magnitude back, for the AB
\* pair and for the Vega pair, each with its zero point in both directions.
C19_MagnitudeFluxInverse ==
    (phot.op \in {"calculate_ab_magnitude", "calculate_vega_magnitude"}
        /\ phot.raised = "") =>
        /\ phot.result = phot.magnitudes
        /\ \A i \in 1..NumFilters :
               neg25_log10_ratio(FluxOf(i, phot.magnitudes[i]), ZeroPointOf(i))
                   = phot.magnitudes[i]

\* a negative and a positive magnitude went through the AB pair
C19_Witness ==
    /\ phot.op = "calculate_ab_magnitude"
    /\ phot.raised = ""
    /\ phot.magnitudes = <<0 - 1, 1>>
    /\ phot.result = <<0 - 1, 1>>

(* ------------------------- transmission curves ------------------------- *)

\* a wavelength in angstrom
Angstroms(value, unit) == IF unit = "nm" THEN 10 * value ELSE value

\* the curve's samples in angstrom
SampleAngstroms ==
    [j \in 1..Len(curve.self.wavelength.value) |->
        Angstroms(curve.self.wavelength.value[j], curve.self.wavelength.unit)]

\* entry i of the wavelength array q lies strictly outside the sampled range
OutsideSamples(q, i) ==
    \/ \A j \in 1..Len(SampleAngstroms) : Angstroms(q.value[i], q.unit) < SampleAngstroms[j]
    \/ \A j \in 1..Len(SampleAngstroms) : Angstroms(q.value[i], q.unit) > SampleAngstroms[j]

Products == {"__mul__", "__rmul__"}

\* C16: interpolate returns exactly 0 and raises nothing at every target
\* wavelength strictly outside the sampled range of the curve, in whatever
\* unit the target is given and for every interpolation kind; the product of
\* the filter with a spectrum has zero flux at every such wavelength.
C16_ZeroOutsideSamples ==
    /\ curve.op = "interpolate" =>
           /\ curve.raised = ""
           /\ Len(curve.result) = Len(curve.arg.value)
           /\ \A i \in 1..Len(curve.arg.value) :
                  OutsideSamples(curve.arg, i) => curve.result[i] = 0
    /\ (curve.op \in Products /\ curve.raised = "") =>
           \A i \in 1..Len(curve.arg.wavelength.value) :
               OutsideSamples(curve.arg.wavelength, i) => curve.result.flux[i] = 0

\* a spectrum in another unit than the curve, one wavelength above the last
\* sample, which transmits fully, and one inside the range
C16_Witness ==
    /\ curve.op = "__mul__"
    /\ curve.raised = ""
    /\ curve.self.interpolation_kind = "nearest"
    /\ curve.self.transmission_lambda[Len(curve.self.transmission_lambda)] = FullTransmission
    /\ curve.arg.wavelength.unit # curve.self.wavelength.unit
    /\ Len(curve.arg.flux) = 2
    /\ OutsideSamples(curve.arg.wavelength, 1)
    /\ curve.result.flux[1] = 0
    /\ curve.result.flux[2] # 0

\* C17: interpolate at the curve's own wavelength points returns the
\* transmission values, at the first and the last sample too: wherever a
\* target wavelength equals sample j the result is transmission j.
C17_SamplesReturned ==
    curve.op = "interpolate" =>
        /\ curve.arg = curve.self.wavelength => curve.result = curve.self.transmission_lambda
        /\ \A i \in 1..Len(curve.arg.value) : \A j \in 1..Len(SampleAngstroms) :
               Angstroms(curve.arg.value[i], curve.arg.unit) = SampleAngstroms[j]
                   => curve.result[i] = curve.self.transmission_lambda[j]

\* three samples, the first and the last transmitting, interpolated on
\* themselves
C17_Witness ==
    /\ curve.op = "interpolate"
    /\ curve.arg = curve.self.wavelength
    /\ Len(curve.self.transmission_lambda) = 3
    /\ curve.self.transmission_lambda[1] = FullTransmission
    /\ curve.self.transmission_lambda[3] = FullTransmission
    /\ curve.result = curve.self.transmission_lambda

\* twice the trapezoid sum of y over the curve's samples, from segment j on
RECURSIVE TwiceArea(_, _)
TwiceArea(y, j) ==
    LET x == curve.self.wavelength.value
    IN  IF j >= Len(x) THEN 0
        ELSE (x[j + 1] - x[j]) * (y[j + 1] + y[j]) + TwiceArea(y, j + 1)

Area(y) == TwiceArea(y, 1) \div 2

PhotonCounter == curve.self.detector_type = "PHOTON_COUNTER"

\* negative powers of the wavelength are counted in 1/64 per nm, 1/6400 per
\* angstrom
InverseUnit == 64 * (IF curve.self.wavelength.unit = "angstrom" THEN 100 ELSE 1)

\* the integrands over the curve's samples: transmission times wavelength
\* to the power 1, 0, -1 and -2, the negative powers times the inverse scale
Integrand(power) ==
    LET x == curve.self.wavelength.value
        t == curve.self.transmission_lambda
        scale == InverseUnit
    IN  [j \in 1..Len(x) |->
            CASE power = 1 -> t[j] * x[j]
              [] power = 0 -> t[j]
              [] power = 0 - 1 -> (t[j] * scale) \div x[j]
              [] OTHER -> (t[j] * scale) \div (x[j] * x[j])]

FlatCurve ==
    \A j \in 1..Len(curve.self.transmission_lambda) :
        curve.self.transmission_lambda[j] = FullTransmission

\* C18: for a flat curve of ones sampled from l1 to l2, evenly or not,
\* calculate_wavelength_delta is l2 - l1 for ENERGY_COUNTER and
\* (l2^2 - l1^2) / 2 for PHOTON_COUNTER; wavelength_delta, flux density, pivot
\* wavelength and weighted average wavelength all integrate the integrand of
\* the curve's detector_type.
C18_DetectorTypeDispatch ==
    LET x  == curve.self.wavelength.value
        l1 == x[1]
        l2 == x[Len(x)]
        delta == IF PhotonCounter THEN Area(Integrand(1)) ELSE Area(Integrand(0))
    IN  /\ curve.op = "calculate_wavelength_delta" =>
               /\ curve.result = delta
               /\ FlatCurve =>
                      curve.result = IF PhotonCounter
                                     THEN FullTransmission * ((l2 * l2 - l1 * l1) \div 2)
                                     ELSE FullTransmission * (l2 - l1)
        /\ curve.op = "lambda_pivot" =>
               /\ curve.result.upper = delta
               /\ curve.result.lower = IF PhotonCounter THEN Area(Integrand(0 - 1))
                                                        ELSE Area(Integrand(0 - 2))
               /\ curve.result.scale = InverseUnit
        /\ curve.op = "calculate_weighted_average_wavelength" =>
               /\ curve.result.upper = delta
               /\ curve.result.lower = IF PhotonCounter THEN Area(Integrand(0))
                                                        ELSE Area(Integrand(0 - 1))
               /\ curve.result.scale = IF PhotonCounter THEN 1 ELSE InverseUnit
        /\ (/\ curve.op = "calculate_filter_flux_density"
            /\ curve.arg.wavelength = curve.self.wavelength
            /\ \A i \in 1..Len(curve.arg.flux) : curve.arg.flux[i] = 1) =>
               curve.result = delta

\* a flat photon-counter curve on the uneven grid 2, 4, 8 nm
C18_Witness ==
    /\ curve.op = "calculate_wavelength_delta"
    /\ PhotonCounter
    /\ FlatCurve
    /\ curve.self.wavelength = [value |-> <<2, 4, 8>>, unit |-> "nm"]
    /\ curve.result = FullTransmission * 30

\* C20: filter * x and x * filter raise ValueError whenever x lacks flux or
\* lacks wavelength, before anything is interpolated; when x has both, the
\* product is on x's wavelengths, in their order, entry i being flux i times
\* the transmission interpolated at wavelength i.
C20_ProductOfSpectrumLike ==
    curve.op \in Products =>
        IF ~curve.arg.has_flux \/ ~curve.arg.has_wavelength
        THEN curve.raised = "ValueError" /\ ~curve.result.interpolated
        ELSE /\ curve.raised = ""
             /\ curve.result.wavelength = curve.arg.wavelength
             /\ Len(curve.result.flux) = Len(curve.arg.wavelength.value)
             /\ \A i \in 1..Len(curve.arg.wavelength.value) :
                    curve.result.flux[i] =
                        curve.arg.flux[i]
                        * interpolate(curve.self,
                                      [value |-> <<curve.arg.wavelength.value[i]>>,
                                       unit |-> curve.arg.wavelength.unit])[1]

\* an object with wavelength but without flux was multiplied from the left
C20_Witness ==
    /\ curve.op = "__rmul__"
    /\ curve.arg.has_wavelength
    /\ ~curve.arg.has_flux
    /\ curve.raised = "ValueError"
    /\ ~curve.result.interpolated

\* the normalized cumulative transmission up to sample j is at least v
CumulativeReaches(j, v) ==
    LET t == curve.self.transmission_lambda
    IN  cumsum(t, j) * v.den >= v.num * sum(t)

\* the first sample at which the normalized cumulative transmission is at
\* least v
FirstReaching(v) ==
    CHOOSE j \in 1..Len(curve.self.transmission_lambda) :
        /\ CumulativeReaches(j, v)
        /\ \A k \in 1..(j - 1) : ~CumulativeReaches(k, v)

\* C27: for a curve of positive total transmission and a threshold in
\* (0, 0.5], get_wavelength_start is the grid wavelength at which the
\* normalized cumulative transmission first reaches the threshold and
\* get_wavelength_end the one at which it first reaches 1 - threshold; neither
\* indexes past the last sample, and the start is not after the end.
C27_WavelengthStartEnd ==
    LET self == curve.self
        threshold == curve.arg
    IN  (curve.op \in {"get_wavelength_start", "get_wavelength_end"}
            /\ sum(self.transmission_lambda) > 0) =>
            /\ curve.raised = ""
            /\ \E j \in 1..Len(self.wavelength.value) : curve.result = self.wavelength.value[j]
            /\ curve.op = "get_wavelength_start" =>
                   /\ curve.result = self.wavelength.value[FirstReaching(threshold)]
                   /\ curve.result <= get_wavelength_end(self, threshold).result
            /\ curve.op = "get_wavelength_end" =>
                   /\ curve.result = self.wavelength.value[
                          FirstReaching([num |-> threshold.den - threshold.num,
                                         den |-> threshold.den])]
                   /\ curve.result >= get_wavelength_start(self, threshold).result

\* the end of a curve whose first sample is blocked, at threshold 1/2: the
\* cumulative transmission reaches one half at the second of three samples
C27_Witness ==
    /\ curve.op = "get_wavelength_end"
    /\ curve.arg = [num |-> 1, den |-> 2]
    /\ curve.self.transmission_lambda = <<0, FullTransmission, FullTransmission>>
    /\ curve.result = curve.self.wavelength.value[2]

(* ---------------------- lazy attributes of a curve --------------------- *)

\* what the attribute is for the wavelength, transmission_lambda and
\* detector_type the curve has now
ValueNow(attr) ==
    CASE attr = "lambda_pivot" -> lambda_pivot(curve.self)
      [] attr = "wavelength_start" -> get_wavelength_start(curve.self, [num |-> 1, den |-> 100]).result
      [] attr = "zp_ab_f_lambda" -> [zp_ab_f_nu_Jy |-> 3631, lambda_pivot |-> lambda_pivot(curve.self)]
      [] OTHER -> interpolate(curve.self, curve.self.wavelength)

\* C21: whatever reads of lazy attributes and assignments to wavelength,
\* transmission_lambda or detector_type came before, a value read from a
\* derived attribute (pivot wavelength, zero point, start of the wavelength
\* range, interpolation) is the value computed from the attributes as they
\* are at the read: never a value kept from before an assignment.
C21_DerivedValuesCurrent ==
    curve.op = "read" => curve.result = ValueNow(curve.attr)

(* ---------------------------- MagnitudeSet ----------------------------- *)

\* C24: a constructed MagnitudeSet has as many magnitudes as filters, and
\* its magnitude_uncertainties are None or as many as the filters; one
\* constructed without uncertainties reports None, so that
\* MagnitudeSpectralModel skips the uncertainty conversion and has no flux_err.
C24_MagnitudeSetWellFormed ==
    /\ (phot.op = "MagnitudeSet" /\ phot.raised = "") =>
           /\ Len(phot.object.magnitudes.data) = Len(phot.object.filter_set)
           /\ \/ phot.object.magnitude_uncertainties.py_type = "NoneType"
              \/ /\ phot.object.magnitude_uncertainties.ndim = 1
                 /\ Len(phot.object.magnitude_uncertainties.data) = Len(phot.object.filter_set)
           /\ phot.magnitude_uncertainties.py_type = "NoneType"
                  => phot.object.magnitude_uncertainties.py_type = "NoneType"
    /\ (/\ phot.op = "MagnitudeSpectralModel"
        /\ phot.magnitude_uncertainties.py_type = "NoneType"
        /\ Len(phot.magnitudes.data) = Len(phot.filter_set)) =>
           phot.raised = "" /\ phot.result.flux_err.py_type = "NoneType"

(* ------------------- the check at the start of a process --------------- *)

\* a process has started and its check has run
Started == last.op = "import"

\* the check emitted a critical message
Warned(outcome) == \E i \in 1..Len(outcome.log) : outcome.log[i].e = "critical"

\* the cache directory holds something
CacheHasEntries == files # {} \/ dirs # {} \/ indexFile.exists

\* C22: the check at process start never blocks: whatever the cache and the
\* configuration hold (no date and an empty cache, no date but cached
\* entries, an unparsable or future date, a cache holding only svo_index.vot)
\* it completes without raising.
C22_StartNeverBlocks ==
    Started => last.raised = ""

\* C23: at process start a warning is emitted if the recorded date is more
\* than 30 days old (31 or more; none at exactly 30), or if no date is
\* recorded while the cache holds entries; none is emitted when no date is
\* recorded and the cache is empty, nor when the date is at most 30 days old.
C23_WarnsWhenStale ==
    [][(last'.op = "import" /\ last.op # "import") =>
          /\ stamp.kind = "none" => (Warned(last') <=> CacheHasEntries)
          /\ (stamp.kind = "date" /\ stamp.day <= today) =>
                 (Warned(last') <=> today - stamp.day >= 31)]_vars

\* a process started 31 days after the recorded date and was warned
C23_Witness ==
    /\ Started
    /\ stamp.kind = "date"
    /\ today - stamp.day = 31
    /\ Warned(last)
    /\ last.raised = ""

(* ------------------------- removal of entries --------------------------- *)

\* C25: cached entries are never implicitly deleted: in any sequence of
\* calls, a step after which a cached transmission file is gone is an
\* update(), and the file belongs to a filter that the freshly fetched remote
\* index does not list.
C25_OnlyUpdateRemoves ==
    [][\A p \in CachedFiles :
           p \notin files' =>
               /\ last'.op = "update_filter_data"
               /\ p \notin IndexFiles(last'.fetched)]_vars

(* ----------------------- downloads of a given list --------------------- *)

\* C26: download_filter_data called with an explicit filter_ids list downloads
\* exactly the given filters: a download is attempted for each listed id and
\* for no other id, what is requested from the archive are filters of the
\* list, the master index is neither fetched nor rewritten, and every cache
\* entry whose triplet is not in the list is as it was.
C26_ExactlyTheGivenFilters ==
    [][(last = Idle /\ last'.op = "download_filter_data" /\ last'.given) =>
         LET ids == last'.arg
             log == last'.log
         IN  /\ {log[i].p : i \in AttemptAt(log)} = Range(ids)
             /\ \A i \in 1..Len(log) :
                    /\ log[i].e \notin {"request_index", "write_index"}
                    /\ log[i].e = "request" =>
                           \E k \in 1..Len(ids) : Components(log[i].p) = Components(ids[k])
             /\ indexFile' = indexFile
             /\ \A p \in (files \cup files') \ IndexFiles(ids) :
                    p \in files /\ p \in files']_vars

\* a download of two listed filters into a cache that holds an index and
\* the file of a filter that is not in the list
C26_Witness ==
    /\ DownloadReturned
    /\ last.given
    /\ Len(last.arg) = 2
    /\ indexFile.exists
    /\ \E k \in 1..2 : CacheFile(last.arg[k]) \in files
    /\ files \ IndexFiles(last.arg) # {}

(* --------------------------- reconciliation --------------------------- *)

\* no download attempted by the operation failed: every attempt wrote a file
AllAttemptsWrote(log) ==
    \A k \in 1..Cardinality(AttemptAt(log)) : WrittenBy(log, k) # {}

\* C28: reconciliation converges: whenever update() completes and every
\* download it attempted succeeded, the transmission files in the cache are
\* exactly the files of the filters listed in the freshly fetched index,
\* whatever the cache held before the call.
C28_UpdateConverges ==
    [][(UpdateReturns /\ AllAttemptsWrote(last'.log)) =>
           {p \in files' : GlobMatch(p)} = IndexFiles(last'.fetched)]_vars

\* an update without a failed download of a cache that held a filter the
\* fetched index does not list and lacked one that it lists
C28_Witness ==
    /\ last.op = "update_filter_data"
    /\ last.raised = ""
    /\ AllAttemptsWrote(last.log)
    /\ \E p \in files : ~Did(last.log, "write", p) \/ Did(last.log, "remove", p)
    /\ \E i \in 1..Len(last.log) :
           last.log[i].e = "remove" /\ last.log[i].p \notin IndexFiles(last.fetched)
    /\ CachedFiles = IndexFiles(last.fetched)
    /\ Len(last.fetched) >= 2

(* --------------------------- the local listing ------------------------- *)

\* the listing has just been taken and its ids loaded
Listed == last.op = "load_local_filters_index"

\* an instrument directory of the cache that holds no file
EmptiedDirs ==
    {d \in dirs : \A p \in files : Len(p) < Len(d) \/ SubSeq(p, 1, Len(d)) # d}

\* C29: the local listing is in sync with the disk: after any sequence of
\* download, update and external file-removal steps it holds exactly one
\* identifier per transmission file <facility>/<instrument>/<name>.vot of the
\* cache and none for the root index file, and every identifier of it is
\* accepted by load_transmission_data, which reads that same file.
C29_ListingInSync ==
    Listed =>
        LET ids == last.fetched IN
        /\ Len(ids) = Cardinality(files)
        /\ {CacheFile(ids[i]) : i \in 1..Len(ids)} = files
        /\ \A i \in 1..Len(ids) : Len(Components(ids[i])) = 3
        /\ last.failed = <<>>
        /\ Len(last.log) = Len(ids)
        /\ \A i \in 1..Len(ids) : last.log[i] = Ev("read", CacheFile(ids[i]))

\* a listing of two files beside the index file, after the user deleted the
\* only file of an instrument
C29_Witness ==
    /\ Listed
    /\ Len(last.fetched) = 2
    /\ indexFile.exists
    /\ EmptiedDirs # {}

(* ----------------------- the batched index fetch ------------------------ *)

\* the rows of the answers from the i-th on, in the order of the bins
RECURSIVE RowsFrom(_, _)
RowsFrom(responses, i) ==
    IF i > Len(responses) THEN <<>> ELSE responses[i] \o RowsFrom(responses, i + 1)

\* C30: the batched index fetch tolerates empty batches: whichever bins hold
\* no filter (the first one and several in a row included),
\* get_filter_index_in_batches completes without raising as long as one bin
\* is non-empty and returns the rows of the non-empty bins in bin order; the
\* bins it queries are adjacent, start at the archive's minimum and end at
\* its maximum effective wavelength.
C30_EmptyBatchesTolerated ==
    (/\ last.op = "get_filter_index_in_batches"
     /\ \E i \in 1..last.n_batches : last.responses[i] # <<>>)
    => /\ last.raised = ""
       /\ last.data.rows = RowsFrom(last.responses, 1)
       /\ Len(last.queries) = last.n_batches
       /\ last.queries[1][1] = last.wave_min
       /\ last.queries[last.n_batches][2] = last.wave_max
       /\ \A i \in 1..(last.n_batches - 1) : last.queries[i][2] = last.queries[i + 1][1]

====
